---- MODULE Spec2Model ----
(***************************************************************************)
(* A model of the consensus core of kaspad: the headers-selected-tip       *)
(* store (staging / cache / byte store), the GHOSTDAG colouring of a       *)
(* BlockDAG, and the IBD session of a syncee against a syncer.             *)
(***************************************************************************)
EXTENDS Integers, Sequences, FiniteSets, TLC

VARIABLES
    \* ---- headerSelectedTipStore and the byte store behind it
    staging,    \* hts.staging: Nil or a hash
    cache,      \* hts.cache:   Nil or a hash
    dbVal,      \* the committed byte store: key -> bytes or Absent
    txOpen,     \* a database transaction is open
    txVal,      \* the open transaction's pending Puts: key -> bytes or Absent
    last,       \* the last call on the store and what it returned
    preStage,   \* what the readers returned just before the last Stage call
    sinceCommit, \* the hash of the last successful Commit, until the next Stage
    \* ---- the BlockDAG and its GHOSTDAG data
    parentsMap, \* dagTopology.parentsMap: block -> the set of its parents
    dagMap,     \* ghostdagDataStore.dagMap: block -> BlockGHOSTDAGData
    k,          \* the k of the GHOSTDAG manager
    testNum,    \* the isolatedTest being run (0: blocks are added freely)
    \* ---- the IBD session of a syncee against a syncer
    net,        \* what the two peers hold when they connect (fixed)
    ibdState,   \* the state of the syncee's IBD session
    neg,        \* the locator negotiation: the known low and unknown high
    sharedAncestor, \* the shared chain ancestor the negotiation found
    hdrs,       \* committed: the highest syncer-chain header the syncee holds
    bods,       \* committed: the syncer-chain blocks whose bodies it holds
    vtip,       \* committed: the syncee's virtual selected tip
    staged,     \* the staging buffers of the header, body and tips stores
    scratch,    \* the pruning-point UTXO chunks imported into the scratch area
    wpc,        \* where the task holding the write lock is
    rlock,      \* the number of readers holding the read lock
    session,    \* bookkeeping: the last commit, and how the last session ended
    \* ---- a second node accepting the blocks of the BlockDAG
    order,      \* the order in which the first node accepted its blocks
    peer,       \* the second node: its parentsMap, its dagMap and its order
    \* ---- the block-locator factory
    blockNodeStore, \* blf.blockNodeStore: hash -> selected parent, blue score
    locatorCall, \* the call on the factory in progress and what it returns
    negotiation, \* the syncee's locator negotiation with the syncer
    \* ---- the utilities: UTXO iterators, transaction scripts, block windows
    utilCall,   \* the utility under call, its arguments and what it returned
    callerTx,   \* the transaction of CalcSignatureHash's caller, between calls
    \* ---- readers calling HeadersSelectedTip concurrently
    readers,    \* each reader: where it is in the call, and its locals
    \* ---- the MultisetStore and the database behind it
    new,        \* store.new: the block hashes with a multiset to flush
    loaded,     \* store.loaded: block hash -> multiset
    msDb,       \* the multiset bucket of the database: block hash -> bytes
    msCall      \* the last call on the MultisetStore, what it did, and what
                \* SetMultiset has set since the last ClearNewEntries

storeVars == <<staging, cache, dbVal, txOpen, txVal, last, preStage, sinceCommit>>

dagVars == <<parentsMap, dagMap, k, testNum>>

ibdVars == <<net, ibdState, neg, sharedAncestor, hdrs, bods, vtip, staged,
             scratch, wpc, rlock, session>>

nodeVars == <<order, peer>>

locVars == <<blockNodeStore, locatorCall, negotiation>>

utilVars == <<utilCall, callerTx>>

readVars == <<readers>>

msVars == <<new, loaded, msDb, msCall>>

vars == <<storeVars, dagVars, ibdVars, nodeVars, locVars, utilVars, readVars, msVars>>

(***************************************************************************)
(* Hashes and their serialization.                                         *)
(***************************************************************************)

\* The number of bytes of a hash in the model (32 in the program).
HashSize == 1

Byte == {0, 1}

\* externalapi.DomainHash values: byte arrays of HashSize bytes.
Hashes == [1..HashSize -> Byte]

\* A nil *externalapi.DomainHash.
Nil == <<>>

\* No value under a key of the byte store.
Absent == <<256>>

headerSelectedTipKey == "headers-selected-tip"

\* A key of the byte store that the headers-selected-tip store never uses.
otherKey == "tips"

Keys == {headerSelectedTipKey, otherKey}

\* proto.Marshal(DbHash{Hash: h}): field 1, wire type 2 (tag 10), the
\* length of the payload, the payload.
serializeHeadersSelectedTip(selectedTip) ==
    <<10, Len(selectedTip)>> \o selectedTip

\* proto.Unmarshal into a DbHash, then DbHashToDomainHash: fails (ok = FALSE)
\* unless the bytes are one well-formed field holding HashSize bytes.
deserializeHeadersSelectedTip(selectedTipBytes) ==
    IF /\ Len(selectedTipBytes) >= 2
       /\ selectedTipBytes[1] = 10
       /\ selectedTipBytes[2] = Len(selectedTipBytes) - 2
       /\ selectedTipBytes[2] = HashSize
    THEN [ok |-> TRUE, hash |-> SubSeq(selectedTipBytes, 3, Len(selectedTipBytes))]
    ELSE [ok |-> FALSE, hash |-> Nil]

(***************************************************************************)
(* The store's methods as functions of the store's fields.                 *)
(***************************************************************************)

\* Has: staging, then cache, then the byte store; dbRead tells whether the
\* byte store was read.
Has(stg, cch, db) ==
    IF stg # Nil THEN [ret |-> TRUE, dbRead |-> FALSE]
    ELSE IF cch # Nil THEN [ret |-> TRUE, dbRead |-> FALSE]
    ELSE [ret |-> db[headerSelectedTipKey] # Absent, dbRead |-> TRUE]

\* HeadersSelectedTip from the byte store: Get, deserialize, fill the cache.
HeadersSelectedTipFromDB(cch, db) ==
    IF db[headerSelectedTipKey] = Absent
    THEN [ret |-> Nil, err |-> TRUE, cache |-> cch, dbRead |-> TRUE]
    ELSE LET d == deserializeHeadersSelectedTip(db[headerSelectedTipKey])
         IN  IF ~d.ok
             THEN [ret |-> Nil, err |-> TRUE, cache |-> cch, dbRead |-> TRUE]
             ELSE [ret |-> d.hash, err |-> FALSE, cache |-> d.hash, dbRead |-> TRUE]

\* A HeadersSelectedTip that skips the staging buffer.
HeadersSelectedTipMutSkipStaging(stg, cch, db) ==
    IF cch # Nil
    THEN [ret |-> cch, err |-> FALSE, cache |-> cch, dbRead |-> FALSE]
    ELSE HeadersSelectedTipFromDB(cch, db)

\* HeadersSelectedTip: staging, then cache, then the byte store; ret is the
\* returned hash, err whether an error was returned, cache the cache field
\* after the call, dbRead whether the byte store was read.
HeadersSelectedTip(stg, cch, db) ==
    IF stg # Nil
    THEN [ret |-> stg, err |-> FALSE, cache |-> cch, dbRead |-> FALSE]
    ELSE IF cch # Nil
    THEN [ret |-> cch, err |-> FALSE, cache |-> cch, dbRead |-> FALSE]
    ELSE HeadersSelectedTipFromDB(cch, db)

IsStaged(stg) == stg # Nil

\* What the two readers return in a state: the snapshot a caller can take.
Readers(stg, cch, db) ==
    [tip |-> HeadersSelectedTip(stg, cch, db).ret,
     tipErr |-> HeadersSelectedTip(stg, cch, db).err,
     has |-> Has(stg, cch, db).ret]

NoCall == [op |-> "none", arg |-> Nil, ret |-> Nil, flag |-> FALSE,
           err |-> FALSE, dbRead |-> FALSE, prevOp |-> "none",
           prevArg |-> Nil, wasStaged |-> FALSE]

NoSnapshot == [tip |-> Nil, tipErr |-> FALSE, has |-> FALSE,
               cache |-> Nil, dbVal |-> <<>>, txVal |-> <<>>]

(***************************************************************************)
(* The store's operations.                                                 *)
(***************************************************************************)

\* Stage(selectedTip): hts.staging = selectedTip.
Stage(selectedTip) ==
    /\ staging' = selectedTip
    /\ preStage' = [tip |-> Readers(staging, cache, dbVal).tip,
                    tipErr |-> Readers(staging, cache, dbVal).tipErr,
                    has |-> Readers(staging, cache, dbVal).has,
                    cache |-> cache, dbVal |-> dbVal, txVal |-> txVal]
    /\ sinceCommit' = Nil
    /\ last' = [NoCall EXCEPT !.op = "Stage", !.arg = selectedTip,
                              !.prevOp = last.op, !.prevArg = last.arg, !.wasStaged = staging # Nil]
    /\ UNCHANGED <<cache, dbVal, txOpen, txVal>>

\* A Discard that also forgets the cache.
DiscardMutDropCache ==
    /\ staging' = Nil
    /\ cache' = Nil
    /\ last' = [NoCall EXCEPT !.op = "Discard", !.prevOp = last.op, !.prevArg = last.arg,
                              !.wasStaged = last.wasStaged]
    /\ UNCHANGED <<dbVal, txOpen, txVal, preStage, sinceCommit>>

\* A Discard that clears the wrong field: the cache, not the staging.
DiscardMutWrongField ==
    /\ cache' = Nil
    /\ last' = [NoCall EXCEPT !.op = "Discard", !.prevOp = last.op, !.prevArg = last.arg,
                              !.wasStaged = last.wasStaged]
    /\ UNCHANGED <<staging, dbVal, txOpen, txVal, preStage, sinceCommit>>

\* Discard(): hts.staging = nil.
Discard ==
    /\ staging' = Nil
    /\ last' = [NoCall EXCEPT !.op = "Discard", !.prevOp = last.op, !.prevArg = last.arg,
                              !.wasStaged = last.wasStaged]
    /\ UNCHANGED <<cache, dbVal, txOpen, txVal, preStage, sinceCommit>>

\* A Commit that leaves the cache as it was.
CommitMutNoCache ==
    /\ txOpen
    /\ staging # Nil
    /\ txVal' = [txVal EXCEPT ![headerSelectedTipKey] =
                                  serializeHeadersSelectedTip(staging)]
    /\ staging' = Nil
    /\ sinceCommit' = staging
    /\ last' = [NoCall EXCEPT !.op = "Commit", !.arg = staging,
                              !.prevOp = last.op, !.prevArg = last.arg]
    /\ UNCHANGED <<cache, dbVal, txOpen, preStage>>

\* A Commit that sets the cache before the Put, and so also when it fails.
CommitMutCacheBeforePut ==
    /\ txOpen
    /\ \E putFails \in BOOLEAN :
        IF staging = Nil
        THEN /\ putFails = FALSE
             /\ last' = [NoCall EXCEPT !.op = "Commit", !.prevOp = last.op, !.prevArg = last.arg]
             /\ UNCHANGED <<staging, cache, dbVal, txOpen, txVal, preStage,
                            sinceCommit>>
        ELSE IF putFails
        THEN /\ cache' = staging
             /\ last' = [NoCall EXCEPT !.op = "Commit", !.arg = staging,
                                       !.err = TRUE, !.prevOp = last.op, !.prevArg = last.arg]
             /\ UNCHANGED <<staging, dbVal, txOpen, txVal, preStage,
                            sinceCommit>>
        ELSE /\ txVal' = [txVal EXCEPT ![headerSelectedTipKey] =
                                           serializeHeadersSelectedTip(staging)]
             /\ cache' = staging
             /\ staging' = Nil
             /\ sinceCommit' = staging
             /\ last' = [NoCall EXCEPT !.op = "Commit", !.arg = staging,
                                       !.prevOp = last.op, !.prevArg = last.arg]
             /\ UNCHANGED <<dbVal, txOpen, preStage>>

\* Commit(dbTx): nothing when nothing is staged; otherwise serialize the
\* staged hash, Put it under the key (the Put may fail, and Commit then
\* returns the error with the store untouched), set the cache, Discard.
Commit ==
    /\ txOpen
    /\ \E putFails \in BOOLEAN :
        IF staging = Nil
        THEN /\ putFails = FALSE
             /\ last' = [NoCall EXCEPT !.op = "Commit", !.prevOp = last.op, !.prevArg = last.arg]
             /\ UNCHANGED <<staging, cache, dbVal, txOpen, txVal, preStage,
                            sinceCommit>>
        ELSE IF putFails
        THEN /\ last' = [NoCall EXCEPT !.op = "Commit", !.arg = staging,
                                       !.err = TRUE, !.prevOp = last.op, !.prevArg = last.arg]
             /\ UNCHANGED <<staging, cache, dbVal, txOpen, txVal, preStage,
                            sinceCommit>>
        ELSE /\ txVal' = [txVal EXCEPT ![headerSelectedTipKey] =
                                           serializeHeadersSelectedTip(staging)]
             /\ cache' = staging
             /\ staging' = Nil
             /\ sinceCommit' = staging
             /\ last' = [NoCall EXCEPT !.op = "Commit", !.arg = staging,
                                       !.prevOp = last.op, !.prevArg = last.arg]
             /\ UNCHANGED <<dbVal, txOpen, preStage>>

\* A caller reads HeadersSelectedTip(dbContext).
CallHeadersSelectedTip ==
    LET r == HeadersSelectedTip(staging, cache, dbVal)
    IN  /\ cache' = r.cache
        /\ last' = [NoCall EXCEPT !.op = "HeadersSelectedTip", !.ret = r.ret,
                                  !.err = r.err, !.dbRead = r.dbRead,
                                  !.prevOp = last.op, !.prevArg = last.arg]
        /\ UNCHANGED <<staging, dbVal, txOpen, txVal, preStage, sinceCommit>>

\* A caller reads Has(dbContext).
CallHas ==
    LET r == Has(staging, cache, dbVal)
    IN  /\ last' = [NoCall EXCEPT !.op = "Has", !.flag = r.ret,
                                  !.dbRead = r.dbRead, !.prevOp = last.op, !.prevArg = last.arg]
        /\ UNCHANGED <<staging, cache, dbVal, txOpen, txVal, preStage,
                       sinceCommit>>

\* A caller reads IsStaged().
CallIsStaged ==
    /\ last' = [NoCall EXCEPT !.op = "IsStaged", !.flag = IsStaged(staging),
                              !.prevOp = last.op, !.prevArg = last.arg]
    /\ UNCHANGED <<staging, cache, dbVal, txOpen, txVal, preStage, sinceCommit>>

(***************************************************************************)
(* The byte store's transactions.                                          *)
(***************************************************************************)

NoPuts == [key \in Keys |-> Absent]

\* The values of the IBD session's variables while no peer is connected.
IdleIBD ==
    /\ net = <<>>
    /\ ibdState = "Idle"
    /\ neg = <<>>
    /\ sharedAncestor = 0
    /\ hdrs = 0
    /\ bods = {}
    /\ vtip = Nil
    /\ staged = <<>>
    /\ scratch = 0
    /\ wpc = "idle"
    /\ rlock = 0
    /\ session = <<>>

\* The values of the BlockDAG's variables while only the store runs.
IdleDag ==
    /\ parentsMap = <<>>
    /\ dagMap = <<>>
    /\ k = 0
    /\ testNum = 0

\* No second node is connected.
IdleNodes ==
    /\ order = <<>>
    /\ peer = <<>>

\* No block-locator factory has been built.
IdleLocator ==
    /\ blockNodeStore = <<>>
    /\ locatorCall = <<>>
    /\ negotiation = <<>>

\* No utility is under call.
IdleUtils == utilCall = <<>> /\ callerTx = <<>>

\* No reader runs.
IdleReaders == readers = <<>>

\* No MultisetStore has been built.
IdleMultiset ==
    /\ new = {}
    /\ loaded = <<>>
    /\ msDb = <<>>
    /\ msCall = <<>>

\* The caller opens the one write transaction of an acceptance.
BeginTx ==
    /\ ~txOpen
    /\ txOpen' = TRUE
    /\ txVal' = NoPuts
    /\ last' = [NoCall EXCEPT !.op = "BeginTx", !.prevOp = last.op, !.prevArg = last.arg]
    /\ UNCHANGED <<staging, cache, dbVal, preStage, sinceCommit>>

\* dbTx.Commit(): the pending Puts become the committed values.
TxCommit ==
    /\ txOpen
    /\ dbVal' = [key \in Keys |->
                   IF txVal[key] # Absent THEN txVal[key] ELSE dbVal[key]]
    /\ txOpen' = FALSE
    /\ txVal' = NoPuts
    /\ last' = [NoCall EXCEPT !.op = "TxCommit", !.prevOp = last.op, !.prevArg = last.arg]
    /\ UNCHANGED <<staging, cache, preStage, sinceCommit>>

\* dbTx.Rollback(): the pending Puts are dropped.
TxRollback ==
    /\ txOpen
    /\ txOpen' = FALSE
    /\ txVal' = NoPuts
    /\ last' = [NoCall EXCEPT !.op = "TxRollback", !.prevOp = last.op, !.prevArg = last.arg]
    /\ UNCHANGED <<staging, cache, dbVal, preStage, sinceCommit>>

\* New(): an empty store, over a byte store that holds no selected tip yet or
\* the tip a previous run committed.
InitStore ==
    /\ staging = Nil
    /\ cache = Nil
    /\ \E h \in Hashes \cup {Nil} :
         dbVal = [key \in Keys |->
                    IF key = headerSelectedTipKey /\ h # Nil
                    THEN serializeHeadersSelectedTip(h) ELSE Absent]
    /\ txOpen = FALSE
    /\ txVal = NoPuts
    /\ last = NoCall
    /\ preStage = NoSnapshot
    /\ sinceCommit = Nil

\* The store alone: its methods and the byte store's transactions are called
\* in any order; the BlockDAG and the IBD session stay as constructed.
NextStore ==
    \/ (\E h \in Hashes : Stage(h)) /\ UNCHANGED <<dagVars, ibdVars, nodeVars, locVars, utilVars, readVars, msVars>>
    \/ Discard /\ UNCHANGED <<dagVars, ibdVars, nodeVars, locVars, utilVars, readVars, msVars>>
    \/ Commit /\ UNCHANGED <<dagVars, ibdVars, nodeVars, locVars, utilVars, readVars, msVars>>
    \/ CallHeadersSelectedTip /\ UNCHANGED <<dagVars, ibdVars, nodeVars, locVars, utilVars, readVars, msVars>>
    \/ CallHas /\ UNCHANGED <<dagVars, ibdVars, nodeVars, locVars, utilVars, readVars, msVars>>
    \/ CallIsStaged /\ UNCHANGED <<dagVars, ibdVars, nodeVars, locVars, utilVars, readVars, msVars>>
    \/ BeginTx /\ UNCHANGED <<dagVars, ibdVars, nodeVars, locVars, utilVars, readVars, msVars>>
    \/ TxCommit /\ UNCHANGED <<dagVars, ibdVars, nodeVars, locVars, utilVars, readVars, msVars>>
    \/ TxRollback /\ UNCHANGED <<dagVars, ibdVars, nodeVars, locVars, utilVars, readVars, msVars>>

\* New() over a byte store, no BlockDAG and no peer.
InitStoreAlone ==
    InitStore /\ IdleDag /\ IdleIBD /\ IdleNodes /\ IdleLocator /\ IdleUtils
    /\ IdleReaders /\ IdleMultiset

SpecStore == InitStoreAlone /\ [][NextStore]_vars

(***************************************************************************)
(* Claims about the headers-selected-tip store.                            *)
(***************************************************************************)

\* The selected tip the byte store holds (Nil when it holds none).
CommittedTip ==
    IF dbVal[headerSelectedTipKey] = Absent THEN Nil
    ELSE deserializeHeadersSelectedTip(dbVal[headerSelectedTipKey]).hash

\* C5, as stated: while a value is staged, HeadersSelectedTip returns the
\* last committed selected tip and Has tells whether one was committed, not
\* the staged value.
C5_ReadersIgnoreStaging ==
    /\ (staging # Nil /\ last.op = "HeadersSelectedTip") => last.ret = CommittedTip
    /\ (staging # Nil /\ last.op = "Has") => last.flag = (CommittedTip # Nil)

\* C5, amended: while a value is staged, HeadersSelectedTip returns the
\* staged value and Has returns true, both without reading the cache or the
\* byte store; the readers read through the staging buffer.
C5_ReadersReadThroughStaging ==
    /\ (staging # Nil /\ last.op = "HeadersSelectedTip") =>
           /\ last.ret = staging
           /\ ~last.err
           /\ ~last.dbRead
    /\ (staging # Nil /\ last.op = "Has") => (last.flag /\ ~last.dbRead)

\* A read of HeadersSelectedTip while the staged hash differs from the
\* committed one.
C5_Witness ==
    /\ staging # Nil
    /\ last.op = "HeadersSelectedTip"
    /\ CommittedTip # Nil
    /\ CommittedTip # staging
    /\ last.prevOp = "Stage"

\* C6: a successful Commit with x staged (x the argument of the last Stage)
\* puts the serialization of x, which decodes to x, under the
\* headers-selected-tip key of the transaction and under no other key,
\* leaves nothing staged, and from then until the next Stage
\* HeadersSelectedTip returns x from the cache without reading the byte store.
C6_CommitFlushesStaged ==
    /\ (last.op = "Commit" /\ ~last.err /\ last.arg # Nil) =>
           /\ txVal[headerSelectedTipKey] = serializeHeadersSelectedTip(last.arg)
           /\ deserializeHeadersSelectedTip(txVal[headerSelectedTipKey]) =
                  [ok |-> TRUE, hash |-> last.arg]
           /\ txVal[otherKey] = Absent
           /\ ~IsStaged(staging)
           /\ sinceCommit = last.arg
           /\ (last.prevOp = "Stage" => last.arg = last.prevArg)
    /\ sinceCommit # Nil =>
           /\ ~IsStaged(staging)
           /\ HeadersSelectedTip(staging, cache, dbVal).ret = sinceCommit
           /\ ~HeadersSelectedTip(staging, cache, dbVal).err
           /\ ~HeadersSelectedTip(staging, cache, dbVal).dbRead
    /\ (sinceCommit # Nil /\ last.op = "HeadersSelectedTip") =>
           (last.ret = sinceCommit /\ ~last.err /\ ~last.dbRead)

\* HeadersSelectedTip is read after a Commit of a hash that the byte store
\* does not hold yet.
C6_Witness ==
    /\ sinceCommit # Nil
    /\ last.op = "HeadersSelectedTip"
    /\ last.ret = sinceCommit
    /\ CommittedTip # sinceCommit
    /\ txOpen
    /\ txVal[headerSelectedTipKey] = serializeHeadersSelectedTip(sinceCommit)

\* C7, as stated: after Stage(x); Discard() nothing is staged, the byte store
\* and the open transaction are as before Stage(x), the cache is unchanged,
\* and HeadersSelectedTip and Has return what they returned before Stage(x).
C7_DiscardRestoresReaders ==
    (last.op = "Discard" /\ last.prevOp = "Stage") =>
        /\ ~IsStaged(staging)
        /\ dbVal = preStage.dbVal
        /\ txVal = preStage.txVal
        /\ cache = preStage.cache
        /\ Readers(staging, cache, dbVal).tip = preStage.tip
        /\ Readers(staging, cache, dbVal).tipErr = preStage.tipErr
        /\ Readers(staging, cache, dbVal).has = preStage.has

\* C7, amended: after Stage(x); Discard() nothing is staged, the byte store,
\* the open transaction and the cache are as before Stage(x), and the readers
\* return what they return over an empty staging buffer: what they returned
\* before Stage(x) when nothing was staged at that time.
C7_DiscardDropsStagingOnly ==
    (last.op = "Discard" /\ last.prevOp = "Stage") =>
        /\ ~IsStaged(staging)
        /\ dbVal = preStage.dbVal
        /\ txVal = preStage.txVal
        /\ cache = preStage.cache
        /\ Readers(staging, cache, dbVal) =
               Readers(Nil, preStage.cache, preStage.dbVal)
        /\ ~last.wasStaged =>
               /\ Readers(staging, cache, dbVal).tip = preStage.tip
               /\ Readers(staging, cache, dbVal).tipErr = preStage.tipErr
               /\ Readers(staging, cache, dbVal).has = preStage.has

\* Stage(x); Discard() over a filled cache, x not the cached hash.
C7_Witness ==
    /\ last.op = "Discard"
    /\ last.prevOp = "Stage"
    /\ ~last.wasStaged
    /\ cache # Nil
    /\ last.prevArg # cache
    /\ preStage.tip = cache

\* The last call was a Commit that returned an error.
CommitFailed == last.op = "Commit" /\ last.err

\* C34: if Commit fails (the serialization or the Put returns an error),
\* the store is left exactly as before the call: the cache keeps its value,
\* the staged value is still staged, nothing is written; and a Discard
\* after it makes HeadersSelectedTip return the tip that was committed
\* before the value was staged.
C34_FailedCommitLeavesStore ==
    [][/\ CommitFailed' =>
            /\ staging # Nil
            /\ UNCHANGED <<staging, cache, dbVal, txVal, txOpen>>
       /\ (CommitFailed /\ last'.op = "Discard") =>
            /\ staging' = Nil
            /\ cache' = cache
            /\ HeadersSelectedTip(staging', cache', dbVal') =
                  HeadersSelectedTip(Nil, preStage.cache, preStage.dbVal)]_vars

\* Commit has failed on a staged hash that is not the cached one, over a
\* byte store that holds a committed tip.
C34_Witness ==
    /\ CommitFailed
    /\ staging # Nil
    /\ cache # Nil
    /\ staging # cache
    /\ CommittedTip # Nil

\* C35: the cache only ever holds a value that is durably committed in the
\* byte store: once the enclosing transaction is over, rolled back after
\* Commit returned nil included, and nothing is staged, HeadersSelectedTip
\* and Has report the tip the byte store holds and no other.
C35_CacheIsDurable ==
    (~txOpen /\ staging = Nil) =>
        /\ cache # Nil => cache = CommittedTip
        /\ Readers(staging, cache, dbVal).tip = CommittedTip
        /\ Readers(staging, cache, dbVal).has = (CommittedTip # Nil)

(***************************************************************************)
(* The BlockDAG of the GHOSTDAG tests: a topology manager that knows each  *)
(* block's parents, and a store of BlockGHOSTDAGData.  A block's hash is   *)
(* DomainHash{n}, modelled by n; hashes compare as their bytes do.         *)
(***************************************************************************)

\* The number of blocks added on top of genesis.
MaxBlocks == 4

\* The largest k a GHOSTDAG manager is built with.
MaxK == 2

\* genesisHash := &externalapi.DomainHash{}
genesisHash == 0

\* A nil selected parent.
NoBlock == 0 - 1

BlockHashes == 1..MaxBlocks

\* Genesis data with the blue score 0.
GenesisDataMutScoreZero ==
    [blueScore |-> 0, selectedParent |-> NoBlock, mergeSetBlues |-> <<>>,
     mergeSetReds |-> <<>>, bluesAnticoneSizes |-> <<>>]

\* The GHOSTDAG data the test stores for genesis.
GenesisData ==
    [blueScore |-> 1, selectedParent |-> NoBlock, mergeSetBlues |-> <<>>,
     mergeSetReds |-> <<>>, bluesAnticoneSizes |-> <<>>]

\* DAGTopologyManagerImpl.Parents: the parents, none for an unknown block.
Parents(blockHash, pm) ==
    IF blockHash \in DOMAIN pm THEN pm[blockHash] ELSE {}

\* An IsAncestorOf that looks at the parents only.
IsAncestorOfMutParentsOnly(a, b, pm) ==
    (b \in DOMAIN pm) /\ (a \in pm[b])

\* DAGTopologyManagerImpl.IsAncestorOf(a, b): a is a parent of b, or an
\* ancestor of one of b's parents.
RECURSIVE IsAncestorOfRec(_, _, _)
IsAncestorOfRec(a, b, pm) ==
    IF b \notin DOMAIN pm THEN FALSE
    ELSE \/ a \in pm[b]
         \/ \E parentOfB \in pm[b] : IsAncestorOfRec(a, parentOfB, pm)

IsAncestorOf(a, b, pm) == IsAncestorOfRec(a, b, pm)

\* GHOSTDAGDataStoreImpl.Get
Get(blockHash, dm) == dm[blockHash]

\* A Stage that keeps one BlockGHOSTDAGData for all the blocks staged after
\* genesis: every such entry points to the data staged last.
StageDataMutAliased(blockHash, data, dm) ==
    [h \in DOMAIN dm \cup {blockHash} |->
        IF h = genesisHash THEN dm[h] ELSE data]

\* GHOSTDAGDataStoreImpl.Stage
StageData(blockHash, data, dm) ==
    [h \in DOMAIN dm \cup {blockHash} |-> IF h = blockHash THEN data ELSE dm[h]]

(***************************************************************************)
(* GHOSTDAG.  The managers are driven through Parents, IsAncestorOf, Get   *)
(* and Stage only.                                                         *)
(***************************************************************************)

\* The order of blocks by blue score, ties by hash.
Less(a, b, dm) ==
    \/ dm[a].blueScore < dm[b].blueScore
    \/ dm[a].blueScore = dm[b].blueScore /\ a < b

\* The selected parent: the parent with the highest blue score, and among
\* those the one the tests expect (the highest hash).
findSelectedParent(parents, dm) ==
    CHOOSE p \in parents : \A q \in parents \ {p} : Less(q, p, dm)

\* A set of blocks as the sequence sorted by Less.
RECURSIVE sortMergeSet(_, _)
sortMergeSet(blocks, dm) ==
    IF blocks = {} THEN <<>>
    ELSE LET first == CHOOSE b \in blocks : \A c \in blocks \ {b} : Less(b, c, dm)
         IN  <<first>> \o sortMergeSet(blocks \ {first}, dm)

\* The breadth-first walk from the queued blocks through their parents,
\* leaving out the blocks that are ancestors of the selected parent.
RECURSIVE mergeSetWalk(_, _, _, _)
mergeSetWalk(queue, mergeSet, selectedParent, pm) ==
    IF queue = {} THEN mergeSet
    ELSE LET current == CHOOSE b \in queue : TRUE
             found == {parent \in Parents(current, pm) :
                          /\ parent \notin mergeSet
                          /\ ~IsAncestorOf(parent, selectedParent, pm)}
         IN  mergeSetWalk((queue \ {current}) \cup found, mergeSet \cup found,
                          selectedParent, pm)

\* The merge set without the selected parent, in the order it is coloured.
mergeSetWithoutSelectedParent(selectedParent, parents, pm, dm) ==
    sortMergeSet(mergeSetWalk(parents \ {selectedParent},
                              parents \ {selectedParent}, selectedParent, pm),
                 dm)

\* The blue anticone size of a blue block, as recorded by the nearest block
\* of the selected-parent chain of `data` that recorded one.
RECURSIVE blueAnticoneSize(_, _, _)
blueAnticoneSize(block, data, dm) ==
    IF block \in DOMAIN data.bluesAnticoneSizes
    THEN data.bluesAnticoneSizes[block]
    ELSE IF data.selectedParent = NoBlock THEN 0
    ELSE blueAnticoneSize(block, Get(data.selectedParent, dm), dm)

\* The candidate against the blues of one chain block after another, from the
\* new block down: blue as soon as a chain block is an ancestor of the
\* candidate; red as soon as the candidate's blue anticone exceeds kk or holds
\* a blue whose own blue anticone is already kk.
RECURSIVE checkChain(_, _, _, _, _, _, _, _)
checkChain(chainHash, chainData, candidate, sizes, newData, pm, dm, kk) ==
    IF chainHash # NoBlock /\ IsAncestorOf(chainHash, candidate, pm)
    THEN [isBlue |-> TRUE, sizes |-> sizes]
    ELSE LET blues == {chainData.mergeSetBlues[i] :
                          i \in 1..Len(chainData.mergeSetBlues)}
             inAnticone == {b \in blues : ~IsAncestorOf(b, candidate, pm)}
             sizes2 == [b \in DOMAIN sizes \cup inAnticone |->
                          IF b \in inAnticone
                          THEN blueAnticoneSize(b, newData, dm)
                          ELSE sizes[b]]
         IN  IF \/ Cardinality(DOMAIN sizes2) > kk
                \/ \E b \in inAnticone : sizes2[b] >= kk
             THEN [isBlue |-> FALSE, sizes |-> <<>>]
             ELSE IF chainData.selectedParent = NoBlock
             THEN [isBlue |-> TRUE, sizes |-> sizes2]
             ELSE checkChain(chainData.selectedParent,
                             Get(chainData.selectedParent, dm),
                             candidate, sizes2, newData, pm, dm, kk)

\* Whether the candidate can be blue in the new block, and the blue anticone
\* sizes it found.
checkBlueCandidate(newData, candidate, pm, dm, kk) ==
    IF Len(newData.mergeSetBlues) = kk + 1
    THEN [isBlue |-> FALSE, sizes |-> <<>>]
    ELSE checkChain(NoBlock, newData, candidate, <<>>, newData, pm, dm, kk)

\* Colour the candidates in order: a blue one joins mergeSetBlues with its
\* blue anticone size, and every blue in its anticone counts one more; a red
\* one joins mergeSetReds.
RECURSIVE colour(_, _, _, _, _)
colour(candidates, newData, pm, dm, kk) ==
    IF candidates = <<>> THEN newData
    ELSE LET c == Head(candidates)
             r == checkBlueCandidate(newData, c, pm, dm, kk)
             next ==
                 IF r.isBlue
                 THEN [newData EXCEPT
                         !.mergeSetBlues = Append(@, c),
                         !.bluesAnticoneSizes =
                             [b \in DOMAIN @ \cup DOMAIN r.sizes \cup {c} |->
                                 IF b = c THEN Cardinality(DOMAIN r.sizes)
                                 ELSE IF b \in DOMAIN r.sizes THEN r.sizes[b] + 1
                                 ELSE @[b]]]
                 ELSE [newData EXCEPT !.mergeSetReds = Append(@, c)]
         IN  colour(Tail(candidates), next, pm, dm, kk)

\* GHOSTDAG(blockHash): the data staged for a block whose parents are in pm.
GHOSTDAG(blockHash, pm, dm, kk) ==
    LET parents == Parents(blockHash, pm)
        selectedParent == findSelectedParent(parents, dm)
        start == [blueScore |-> 0, selectedParent |-> selectedParent,
                  mergeSetBlues |-> <<selectedParent>>,
                  mergeSetReds |-> <<>>,
                  bluesAnticoneSizes |-> [b \in {selectedParent} |-> 0]]
        done == colour(mergeSetWithoutSelectedParent(selectedParent, parents,
                                                     pm, dm),
                       start, pm, dm, kk)
    IN  [done EXCEPT !.blueScore =
            Get(selectedParent, dm).blueScore + Len(done.mergeSetBlues)]

\* Whether no block of the set is an ancestor of another.
IsAntichain(blocks, pm) ==
    \A a \in blocks : \A b \in blocks : ~IsAncestorOfRec(a, b, pm)

\* The test's loop body: parentsMap[hash] = parents; GHOSTDAG(hash).  The
\* parents are known blocks, none an ancestor of another.
AddBlock(blockHash, parents) ==
    /\ blockHash \notin DOMAIN parentsMap
    /\ parents # {}
    /\ parents \subseteq DOMAIN parentsMap
    /\ IsAntichain(parents, parentsMap)
    /\ LET pm == [h \in DOMAIN parentsMap \cup {blockHash} |->
                    IF h = blockHash THEN parents ELSE parentsMap[h]]
       IN  /\ parentsMap' = pm
           /\ dagMap' = StageData(blockHash, GHOSTDAG(blockHash, pm, dagMap, k),
                                  dagMap)
    /\ UNCHANGED <<k, testNum>>

\* The values of the store's variables while only the BlockDAG runs.
IdleStore ==
    /\ staging = Nil
    /\ cache = Nil
    /\ dbVal = NoPuts
    /\ txOpen = FALSE
    /\ txVal = NoPuts
    /\ last = NoCall
    /\ preStage = NoSnapshot
    /\ sinceCommit = Nil


(***************************************************************************)
(* The DAGs of TestGHOSTDA, each block with the data the test expects.     *)
(***************************************************************************)

T(hash, parents, blueScore, selectedParent, blues, reds) ==
    [hash |-> hash, parents |-> parents, expectedBlueScore |-> blueScore,
     expectedSelectedParent |-> selectedParent,
     expectedMergeSetBlues |-> blues, expectedMergeSetReds |-> reds]

dag1 == [k |-> 0, subTests |-> <<
    T(1, {genesisHash}, 2, genesisHash, <<genesisHash>>, <<>>),
    T(2, {1}, 3, 1, <<1>>, <<>>),
    T(3, {2}, 4, 2, <<2>>, <<>>) >>]

dag2 == [k |-> 3, subTests |-> <<
    T(1, {genesisHash}, 2, genesisHash, <<genesisHash>>, <<>>),
    T(2, {1}, 3, 1, <<1>>, <<>>),
    T(3, {1}, 3, 1, <<1>>, <<>>),
    T(4, {1}, 3, 1, <<1>>, <<>>),
    T(5, {2, 3, 4}, 6, 4, <<4, 2, 3>>, <<>>),
    T(6, {genesisHash}, 2, genesisHash, <<genesisHash>>, <<>>),
    T(7, {6}, 3, 6, <<6>>, <<>>),
    T(8, {7}, 4, 7, <<7>>, <<>>),
    T(9, {8}, 5, 8, <<8>>, <<>>),
    T(10, {5, 9}, 7, 5, <<5>>, <<6, 7, 8, 9>>) >>]

\* dag3 with the lowest of the tied parents 2, 3, 4 expected as the selected
\* parent of block 5.
dag3MutLowerHash == [k |-> 3, subTests |-> <<
    T(1, {genesisHash}, 2, genesisHash, <<genesisHash>>, <<>>),
    T(2, {1}, 3, 1, <<1>>, <<>>),
    T(3, {1}, 3, 1, <<1>>, <<>>),
    T(4, {1}, 3, 1, <<1>>, <<>>),
    T(5, {2, 3, 4}, 6, 2, <<2, 3, 4>>, <<>>),
    T(6, {5}, 7, 5, <<5>>, <<>>) >>]

dag3 == [k |-> 3, subTests |-> <<
    T(1, {genesisHash}, 2, genesisHash, <<genesisHash>>, <<>>),
    T(2, {1}, 3, 1, <<1>>, <<>>),
    T(3, {1}, 3, 1, <<1>>, <<>>),
    T(4, {1}, 3, 1, <<1>>, <<>>),
    T(5, {2, 3, 4}, 6, 4, <<4, 2, 3>>, <<>>),
    T(6, {5}, 7, 5, <<5>>, <<>>) >>]

dag4 == [k |-> 1, subTests |-> <<
    T(1, {genesisHash}, 2, genesisHash, <<genesisHash>>, <<>>),
    T(2, {1}, 3, 1, <<1>>, <<>>),
    T(3, {genesisHash}, 2, genesisHash, <<genesisHash>>, <<>>),
    T(4, {2, 3}, 4, 2, <<2>>, <<3>>) >>]

dag5 == [k |-> 2, subTests |-> <<
    T(1, {genesisHash}, 2, genesisHash, <<genesisHash>>, <<>>),
    T(2, {genesisHash}, 2, genesisHash, <<genesisHash>>, <<>>),
    T(5, {1}, 3, 1, <<1>>, <<>>),
    T(4, {2}, 3, 2, <<2>>, <<>>),
    T(3, {2}, 3, 2, <<2>>, <<>>),
    T(7, {3, 5}, 6, 5, <<5, 2, 3>>, <<>>),
    T(6, {5, 4}, 6, 5, <<5, 2, 4>>, <<>>),
    T(8, {3}, 4, 3, <<3>>, <<>>),
    T(9, {6, 7, 8}, 7, 7, <<7>>, <<4, 8, 6>>) >>]

dag6 == [k |-> 3, subTests |-> <<
    T(1, {genesisHash}, 2, genesisHash, <<genesisHash>>, <<>>),
    T(2, {genesisHash}, 2, genesisHash, <<genesisHash>>, <<>>),
    T(3, {genesisHash}, 2, genesisHash, <<genesisHash>>, <<>>),
    T(4, {genesisHash}, 2, genesisHash, <<genesisHash>>, <<>>),
    T(6, {1, 2, 3, 4}, 6, 4, <<4, 1, 2, 3>>, <<>>),
    T(5, {1, 2, 3}, 5, 3, <<3, 1, 2>>, <<>>),
    T(7, {5, 6}, 7, 6, <<6>>, <<5>>) >>]

testsArr == <<dag1, dag2, dag3, dag4, dag5, dag6>>

\* The test's loop over one isolatedTest: the next block of its subTests.
RunSubTest ==
    /\ testNum # 0
    /\ LET subTests == testsArr[testNum].subTests
           done == Cardinality(DOMAIN parentsMap) - 1
       IN  /\ done < Len(subTests)
           /\ LET t == subTests[done + 1]
                  pm == [h \in DOMAIN parentsMap \cup {t.hash} |->
                           IF h = t.hash THEN t.parents ELSE parentsMap[h]]
              IN  /\ parentsMap' = pm
                  /\ dagMap' = StageData(t.hash,
                                         GHOSTDAG(t.hash, pm, dagMap, k), dagMap)
    /\ UNCHANGED <<k, testNum>>

\* The test's set-up: genesis alone, with its data, and a manager either for
\* some k, blocks then being added freely, or for one of the test's DAGs.
InitDag ==
    /\ parentsMap = [h \in {genesisHash} |-> {}]
    /\ dagMap = [h \in {genesisHash} |-> GenesisData]
    /\ \/ testNum = 0 /\ k \in 0..MaxK
       \/ testNum \in 1..Len(testsArr) /\ k = testsArr[testNum].k

NextDag ==
    \/ /\ testNum = 0
       /\ \E blockHash \in BlockHashes :
            \E parents \in SUBSET (DOMAIN parentsMap) :
               AddBlock(blockHash, parents)
       /\ UNCHANGED <<storeVars, ibdVars, nodeVars, locVars, utilVars, readVars, msVars>>
    \/ RunSubTest /\ UNCHANGED <<storeVars, ibdVars, nodeVars, locVars, utilVars, readVars, msVars>>

\* The test's set-up, with no store and no peer.
InitDagAlone ==
    InitDag /\ IdleStore /\ IdleIBD /\ IdleNodes /\ IdleLocator /\ IdleUtils
    /\ IdleReaders /\ IdleMultiset

SpecDag == InitDagAlone /\ [][NextDag]_vars

\* The comparisons of the test: every block staged so far carries the blue
\* score, selected parent, blues and reds the test expects.
TestsPass ==
    testNum # 0 =>
        \A i \in 1..Len(testsArr[testNum].subTests) :
            LET t == testsArr[testNum].subTests[i]
            IN  t.hash \in DOMAIN dagMap =>
                    /\ dagMap[t.hash].blueScore = t.expectedBlueScore
                    /\ dagMap[t.hash].selectedParent = t.expectedSelectedParent
                    /\ dagMap[t.hash].mergeSetBlues = t.expectedMergeSetBlues
                    /\ dagMap[t.hash].mergeSetReds = t.expectedMergeSetReds

(***************************************************************************)
(* Claims about GHOSTDAG.                                                  *)
(***************************************************************************)

\* The elements of a sequence.
Range(seq) == {seq[i] : i \in 1..Len(seq)}

\* The past of a block: its parents and their pasts.
RECURSIVE PastOf(_, _)
PastOf(b, pm) == pm[b] \cup UNION {PastOf(p, pm) : p \in pm[b]}

\* The blocks that are neither in the past nor in the future of x.
AnticoneOf(x, pm) ==
    {y \in DOMAIN pm : y # x /\ y \notin PastOf(x, pm) /\ x \notin PastOf(y, pm)}

\* The blue set of a block: its merge-set blues and the blue set of its
\* selected parent.
RECURSIVE BlueSetOf(_, _)
BlueSetOf(b, dm) ==
    IF dm[b].selectedParent = NoBlock THEN {}
    ELSE Range(dm[b].mergeSetBlues) \cup BlueSetOf(dm[b].selectedParent, dm)

\* The blocks GHOSTDAG has processed.
Processed == DOMAIN parentsMap \ {genesisHash}

IsKCluster(blocks, pm, kk) ==
    \A x \in blocks : Cardinality(AnticoneOf(x, pm) \cap blocks) <= kk

\* The blues a candidate of b's merge set is checked against: the blue set of
\* the selected parent, the selected parent, and the merge-set blues that are
\* coloured before the candidate.
BluesBefore(c, b, dm) ==
    LET sp == dm[b].selectedParent
    IN  BlueSetOf(sp, dm) \cup {sp}
        \cup {x \in Range(dm[b].mergeSetBlues) : x # sp /\ Less(x, c, dm)}

\* Whether colouring c blue next to the blue blocks breaks the bound of k for
\* c or for one of the blue blocks.
BreaksCluster(c, blues, pm, kk) ==
    \/ Cardinality(AnticoneOf(c, pm) \cap blues) > kk
    \/ \E x \in AnticoneOf(c, pm) \cap blues :
          Cardinality(AnticoneOf(x, pm) \cap blues) >= kk

ExpectedSelectedParent(b) ==
    IF testNum = 0 THEN dagMap[b].selectedParent
    ELSE LET subTests == testsArr[testNum].subTests
             i == CHOOSE i \in 1..Len(subTests) : subTests[i].hash = b
         IN  subTests[i].expectedSelectedParent

\* Parents of b that carry the maximum blue score among b's parents.  The
\* test's blocks carry a blue score and no blue work: every block weighs
\* the same, so the two orders agree.
MaxWorkParents(b) ==
    {p \in parentsMap[b] :
        \A q \in parentsMap[b] : dagMap[q].blueScore <= dagMap[p].blueScore}

\* C11 as stated: the selected parent of every block is a parent of maximum
\* blue work, and among the parents tied on it the one with the LOWER hash.
C11_SelectedParentLowerHash ==
    \A b \in Processed :
        /\ dagMap[b].selectedParent \in MaxWorkParents(b)
        /\ \A q \in MaxWorkParents(b) : dagMap[b].selectedParent <= q

\* C11, amended: the selected parent of every block is a parent of maximum
\* blue work (blue score in the test's data), and among the parents tied on
\* it the one with the HIGHER hash; it is the selected parent the test
\* expects.
C11_SelectedParentHigherHash ==
    \A b \in Processed :
        /\ dagMap[b].selectedParent \in MaxWorkParents(b)
        /\ \A q \in MaxWorkParents(b) : q <= dagMap[b].selectedParent
        /\ ExpectedSelectedParent(b) = dagMap[b].selectedParent

\* dag3's block 5 is staged: its parents 2, 3, 4 are tied and 4 is selected.
C11_Witness ==
    /\ testNum = 3
    /\ 5 \in DOMAIN dagMap
    /\ Cardinality(MaxWorkParents(5)) = 3
    /\ dagMap[5].selectedParent = 4

\* The DAG of C12: genesis->1, 1->{2,3,4}, 5 = merge(2,3,4),
\* genesis->6->7->8->9, 10 = merge(5,9).
C12_Dag ==
    (0 :> {}) @@ (1 :> {genesisHash}) @@ (2 :> {1}) @@ (3 :> {1}) @@ (4 :> {1})
    @@ (5 :> {2, 3, 4}) @@ (6 :> {genesisHash}) @@ (7 :> {6}) @@ (8 :> {7})
    @@ (9 :> {8}) @@ (10 :> {5, 9})

\* C12: on that DAG with k = 3 (the test's dag2), GHOSTDAG stages selected
\* parent 4 for block 5, the highest hash among the tied parents 2, 3, 4, and
\* for block 10 the blue score 7, the selected parent 5 and the merge-set reds
\* 6, 7, 8, 9: the longer parallel chain is red.
C12_Dag2Values ==
    (testNum = 2 /\ k = 3) =>
        /\ \A b \in DOMAIN parentsMap : parentsMap[b] = C12_Dag[b]
        /\ 5 \in DOMAIN dagMap =>
              /\ dagMap[2].blueScore = dagMap[3].blueScore
              /\ dagMap[3].blueScore = dagMap[4].blueScore
              /\ dagMap[5].selectedParent = 4
        /\ 10 \in DOMAIN dagMap =>
              /\ dagMap[10].blueScore = 7
              /\ dagMap[10].selectedParent = 5
              /\ Range(dagMap[10].mergeSetReds) = {6, 7, 8, 9}
              /\ Len(dagMap[10].mergeSetReds) = 4
              /\ Range(dagMap[10].mergeSetBlues) = {5}

\* The whole of dag2 has been run: block 10 is staged over the DAG of C12.
C12_Witness ==
    /\ testNum = 2
    /\ k = 3
    /\ DOMAIN dagMap = 0..10
    /\ parentsMap = C12_Dag
    /\ dagMap[10].mergeSetReds # <<>>

(***************************************************************************)
(* Two nodes.  Both start from genesis with the same k and accept the same *)
(* blocks, each in an order of its own: a node accepts a block once it     *)
(* holds the block's parents.  A block's hash fixes its parents.           *)
(***************************************************************************)

MaxPeerBlocks == 3

PeerBlockHashes == 1..MaxPeerBlocks

\* A node that holds genesis alone.
NewNode ==
    [parentsMap |-> [h \in {genesisHash} |-> {}],
     dagMap |-> [h \in {genesisHash} |-> GenesisData],
     order |-> <<>>]

InitNodes ==
    /\ parentsMap = NewNode.parentsMap
    /\ dagMap = NewNode.dagMap
    /\ k \in 0..MaxK
    /\ testNum = 0
    /\ order = NewNode.order
    /\ peer = NewNode

\* The first node accepts a block: the test's loop body.
NodeAddsBlock(blockHash, parents) ==
    /\ blockHash \in DOMAIN peer.parentsMap =>
           peer.parentsMap[blockHash] = parents
    /\ AddBlock(blockHash, parents)
    /\ order' = Append(order, blockHash)
    /\ UNCHANGED peer

\* The second node accepts a block: the same loop body over its own maps.
PeerAddsBlock(blockHash, parents) ==
    /\ blockHash \in DOMAIN parentsMap => parentsMap[blockHash] = parents
    /\ blockHash \notin DOMAIN peer.parentsMap
    /\ parents # {}
    /\ parents \subseteq DOMAIN peer.parentsMap
    /\ IsAntichain(parents, peer.parentsMap)
    /\ LET pm == [h \in DOMAIN peer.parentsMap \cup {blockHash} |->
                    IF h = blockHash THEN parents ELSE peer.parentsMap[h]]
       IN  peer' = [parentsMap |-> pm,
                    dagMap |-> StageData(blockHash,
                                         GHOSTDAG(blockHash, pm, peer.dagMap, k),
                                         peer.dagMap),
                    order |-> Append(peer.order, blockHash)]
    /\ UNCHANGED <<dagVars, order>>

NextNodes ==
    \/ /\ \E blockHash \in PeerBlockHashes :
            \E parents \in SUBSET (DOMAIN parentsMap) :
               NodeAddsBlock(blockHash, parents)
       /\ UNCHANGED <<storeVars, ibdVars, locVars, utilVars, readVars, msVars>>
    \/ /\ \E blockHash \in PeerBlockHashes :
            \E parents \in SUBSET (DOMAIN peer.parentsMap) :
               PeerAddsBlock(blockHash, parents)
       /\ UNCHANGED <<storeVars, ibdVars, locVars, utilVars, readVars, msVars>>

InitNodesAlone ==
    InitNodes /\ IdleStore /\ IdleIBD /\ IdleLocator /\ IdleUtils
    /\ IdleReaders /\ IdleMultiset

SpecNodes == InitNodesAlone /\ [][NextNodes]_vars

\* The blocks no known block has as a parent.
Tips(pm) == {b \in DOMAIN pm : \A c \in DOMAIN pm : b \notin pm[c]}

\* The selected tip: the selected parent of the virtual block, whose parents
\* are the tips.
SelectedTip(pm, dm) == findSelectedParent(Tips(pm), dm)

MaxChain == 3

MaxSynceeOnly == 1

MaxChunks == 2

MaxReaders == 2

\* The hash of block i, as the tests build them: externalapi.DomainHash{i}.
BlockHash(i) == [j \in 1..HashSize |-> IF j = 1 THEN i ELSE 0]

\* The hash of the syncee's own j-th block.
SynceeOnlyHash(j) == BlockHash(MaxChain + j)

\* The greatest element of a non-empty set of numbers.
MaxOf(S) == CHOOSE x \in S : \A y \in S : y <= x

\* The selected tip of a peer that holds its own blocks and the syncer's
\* chain up to h: the block with the highest blue score.
SelectedTipOf(n, h) ==
    IF n.own > 0 /\ h <= n.shared + n.own THEN SynceeOnlyHash(n.own)
    ELSE BlockHash(h)

\* GetSelectedTipHash of the syncer.
SyncerSelectedTipHash == BlockHash(net.tip)

\* GetSelectedTipHash of the syncee.
SynceeSelectedTipHash == vtip

NoStaged == [hdr |-> NoBlock, body |-> NoBlock, vtip |-> Nil, import |-> FALSE]

NoScratch == [started |-> FALSE, chunks |-> 0]

FailureKinds == {"timeout", "disconnectedHeader", "peerDropped"}

\* A failure of the byte store: the error is bubbled to the caller and the
\* node goes read-only.
StorageFailure == "storage"

\* What the syncee has committed, as its read API shows it.
Committed(h, b, v, db) ==
    [hdrs |-> h, bods |-> b, vtip |-> v,
     tip |-> IF db[headerSelectedTipKey] = Absent THEN Nil
             ELSE deserializeHeadersSelectedTip(db[headerSelectedTipKey]).hash]

\* Bodies are requested up to, but not including, the syncer's tip.
MissingBodiesMutSkipTip == {i \in net.pp..(net.tip - 1) : i \notin bods}

\* The bodies still to request: those from the pruning point upward that the
\* syncee does not hold.
MissingBodies == {i \in net.pp..net.tip : i \notin bods}

\* The two peers before they connect: the syncer has mined net.tip blocks,
\* the syncee holds the first net.shared of them and net.own of its own, and
\* the syncer is ahead.
InitIBD ==
    /\ \E t \in 1..MaxChain, p \in 0..MaxChain, sh \in 0..MaxChain,
          o \in 0..MaxSynceeOnly, c \in 1..MaxChunks :
          /\ p < t
          /\ sh + o < t
          /\ net = [tip |-> t, pp |-> p, shared |-> sh, own |-> o, chunks |-> c]
    /\ ibdState = "Idle"
    /\ neg = [low |-> 0, high |-> 0]
    /\ sharedAncestor = 0
    /\ hdrs = net.shared
    /\ bods = 0..net.shared
    /\ vtip = SelectedTipOf(net, net.shared)
    /\ staged = NoStaged
    /\ scratch = NoScratch
    /\ wpc = "idle"
    /\ rlock = 0
    /\ staging = Nil
    /\ cache = Nil
    /\ dbVal = [key \in Keys |->
                  IF key = headerSelectedTipKey
                  THEN serializeHeadersSelectedTip(SelectedTipOf(net, net.shared))
                  ELSE Absent]
    /\ txOpen = FALSE
    /\ txVal = NoPuts
    /\ last = NoCall
    /\ preStage = NoSnapshot
    /\ sinceCommit = Nil
    /\ session = [lastCommit |-> Committed(hdrs, bods, vtip, dbVal),
                  ended |-> "none", failing |-> "none", imported |-> FALSE,
                  readOnly |-> FALSE]

\* connect(syncer, syncee): the syncee sees a peer that is ahead and starts
\* a session with it.
StartIBD ==
    /\ ibdState = "Idle"
    /\ wpc = "idle"
    /\ ~session.readOnly
    /\ SynceeSelectedTipHash # SyncerSelectedTipHash
    /\ ibdState' = "Negotiating"
    /\ neg' = [low |-> 0, high |-> net.tip]
    /\ session' = [session EXCEPT !.ended = "none", !.failing = "none",
                                  !.imported = FALSE]
    /\ UNCHANGED <<net, sharedAncestor, hdrs, bods, vtip, staged, scratch, wpc,
                   rlock, storeVars>>
    /\ UNCHANGED <<dagVars, nodeVars, locVars, utilVars, readVars, msVars>>

\* One locator round.  The syncer answers with a locator of its chain from
\* below neg.high down to neg.low.  When the syncee knows the locator's
\* highest entry, that entry is the shared ancestor; otherwise it asks again
\* between the lowest entry it does not know and the highest it knows.
NegotiateRound ==
    /\ ibdState = "Negotiating"
    /\ IF neg.high - 1 <= hdrs
       THEN /\ sharedAncestor' = neg.high - 1
            /\ ibdState' = "HeadersDownload"
            /\ UNCHANGED neg
       ELSE /\ \E hi \in (hdrs + 1)..(neg.high - 1), lo \in neg.low..hdrs :
                  neg' = [low |-> lo, high |-> hi]
            /\ UNCHANGED <<sharedAncestor, ibdState>>
    /\ UNCHANGED <<net, hdrs, bods, vtip, staged, scratch, wpc, rlock, session,
                   storeVars>>
    /\ UNCHANGED <<dagVars, nodeVars, locVars, utilVars, readVars, msVars>>

\* The acceptance task has work in this phase.
HasWork ==
    \/ ibdState = "HeadersDownload" /\ hdrs < net.tip
    \/ ibdState = "PruningPointUTXODownload" /\ scratch.started
          /\ scratch.chunks = net.chunks
    \/ ibdState = "BodiesDownload" /\ MissingBodies # {}

\* The acceptance task takes the write lock and opens its one transaction.
AcquireWrite ==
    /\ wpc = "idle"
    /\ rlock = 0
    /\ HasWork
    /\ BeginTx
    /\ wpc' = "locked"
    /\ UNCHANGED <<net, ibdState, neg, sharedAncestor, hdrs, bods, vtip, staged,
                   scratch, rlock, session>>
    /\ UNCHANGED <<dagVars, nodeVars, locVars, utilVars, readVars, msVars>>

\* The next header is admitted without its body: it is staged, and with it
\* the headers-selected tip.
StageHeader ==
    /\ wpc = "locked"
    /\ ibdState = "HeadersDownload"
    /\ Stage(SelectedTipOf(net, hdrs + 1))
    /\ staged' = [NoStaged EXCEPT !.hdr = hdrs + 1]
    /\ wpc' = "staged"
    /\ UNCHANGED <<net, ibdState, neg, sharedAncestor, hdrs, bods, vtip,
                   scratch, rlock, session>>
    /\ UNCHANGED <<dagVars, nodeVars, locVars, utilVars, readVars, msVars>>

\* The verified snapshot is staged as the new virtual base.
StageImport ==
    /\ wpc = "locked"
    /\ ibdState = "PruningPointUTXODownload"
    /\ staged' = [NoStaged EXCEPT !.import = TRUE,
                    !.vtip = SelectedTipOf(net, MaxOf(bods \cup {net.pp}))]
    /\ wpc' = "staged"
    /\ UNCHANGED <<net, ibdState, neg, sharedAncestor, hdrs, bods, vtip,
                   scratch, rlock, session, storeVars>>
    /\ UNCHANGED <<dagVars, nodeVars, locVars, utilVars, readVars, msVars>>

\* The lowest missing body, whose parent's state the syncee holds, goes
\* through the acceptance pipeline: the body and the new tips are staged.
StageBody ==
    /\ wpc = "locked"
    /\ ibdState = "BodiesDownload"
    /\ LET i == CHOOSE x \in MissingBodies : \A y \in MissingBodies : x <= y
       IN  /\ i - 1 \in bods
           /\ staged' = [NoStaged EXCEPT !.body = i,
                           !.vtip = SelectedTipOf(net, MaxOf(bods \cup {i}))]
    /\ wpc' = "staged"
    /\ UNCHANGED <<net, ibdState, neg, sharedAncestor, hdrs, bods, vtip,
                   scratch, rlock, session, storeVars>>
    /\ UNCHANGED <<dagVars, nodeVars, locVars, utilVars, readVars, msVars>>

\* The stores are committed into the transaction.
CommitStores ==
    /\ wpc = "staged"
    /\ Commit
    /\ ~last'.err
    /\ wpc' = "flushed"
    /\ UNCHANGED <<net, ibdState, neg, sharedAncestor, hdrs, bods, vtip, staged,
                   scratch, rlock, session>>
    /\ UNCHANGED <<dagVars, nodeVars, locVars, utilVars, readVars, msVars>>

\* The transaction is committed; the imported snapshot replaces the bodies
\* the syncee held.
FinishCommitMutPrunesOld ==
    /\ wpc = "flushed"
    /\ TxCommit
    /\ hdrs' = IF staged.hdr # NoBlock THEN staged.hdr ELSE hdrs
    /\ bods' = IF staged.body # NoBlock THEN bods \cup {staged.body}
               ELSE IF staged.import THEN {net.pp}
               ELSE bods
    /\ vtip' = IF staged.vtip # Nil THEN staged.vtip ELSE vtip
    /\ scratch' = IF staged.import THEN NoScratch ELSE scratch
    /\ staged' = NoStaged
    /\ wpc' = "idle"
    /\ session' = [session EXCEPT
                     !.lastCommit = Committed(hdrs', bods', vtip', dbVal'),
                     !.imported = session.imported \/ staged.import]
    /\ UNCHANGED <<net, ibdState, neg, sharedAncestor, rlock>>
    /\ UNCHANGED <<dagVars, nodeVars, locVars, utilVars, readVars, msVars>>

\* The transaction is committed and the write lock released.
FinishCommit ==
    /\ wpc = "flushed"
    /\ TxCommit
    /\ hdrs' = IF staged.hdr # NoBlock THEN staged.hdr ELSE hdrs
    /\ bods' = IF staged.body # NoBlock THEN bods \cup {staged.body}
               ELSE IF staged.import THEN bods \cup {net.pp}
               ELSE bods
    /\ vtip' = IF staged.vtip # Nil THEN staged.vtip ELSE vtip
    /\ scratch' = IF staged.import THEN NoScratch ELSE scratch
    /\ staged' = NoStaged
    /\ wpc' = "idle"
    /\ session' = [session EXCEPT
                     !.lastCommit = Committed(hdrs', bods', vtip', dbVal'),
                     !.imported = session.imported \/ staged.import]
    /\ UNCHANGED <<net, ibdState, neg, sharedAncestor, rlock>>
    /\ UNCHANGED <<dagVars, nodeVars, locVars, utilVars, readVars, msVars>>

\* Every header up to the syncer's tip is in: the snapshot is fetched.
HeadersDoneMutAlwaysImport ==
    /\ ibdState = "HeadersDownload"
    /\ wpc = "idle"
    /\ hdrs = net.tip
    /\ ibdState' = "PruningPointUTXODownload"
    /\ scratch' = [started |-> TRUE, chunks |-> 0]
    /\ UNCHANGED <<net, neg, sharedAncestor, hdrs, bods, vtip, staged, wpc,
                   rlock, session, storeVars>>
    /\ UNCHANGED <<dagVars, nodeVars, locVars, utilVars, readVars, msVars>>

\* Every header up to the syncer's tip is in.  When the shared ancestor lies
\* below the syncer's pruning point the snapshot of the pruning point is
\* fetched (StartImportingPruningPointUTXOSet); otherwise the bodies are.
HeadersDone ==
    /\ ibdState = "HeadersDownload"
    /\ wpc = "idle"
    /\ hdrs = net.tip
    /\ IF sharedAncestor < net.pp
       THEN /\ ibdState' = "PruningPointUTXODownload"
            /\ scratch' = [started |-> TRUE, chunks |-> 0]
       ELSE /\ ibdState' = "BodiesDownload"
            /\ UNCHANGED scratch
    /\ UNCHANGED <<net, neg, sharedAncestor, hdrs, bods, vtip, staged, wpc,
                   rlock, session, storeVars>>
    /\ UNCHANGED <<dagVars, nodeVars, locVars, utilVars, readVars, msVars>>

\* A chunk of the snapshot arrives and is imported into the scratch area.
ReceiveChunk ==
    /\ ibdState = "PruningPointUTXODownload"
    /\ wpc = "idle"
    /\ rlock = 0
    /\ scratch.started
    /\ scratch.chunks < net.chunks
    /\ scratch' = [scratch EXCEPT !.chunks = scratch.chunks + 1]
    /\ UNCHANGED <<net, ibdState, neg, sharedAncestor, hdrs, bods, vtip, staged,
                   wpc, rlock, session, storeVars>>
    /\ UNCHANGED <<dagVars, nodeVars, locVars, utilVars, readVars, msVars>>

\* FinishImportingPruningPointUTXOSet has switched the virtual base.
ImportDone ==
    /\ ibdState = "PruningPointUTXODownload"
    /\ wpc = "idle"
    /\ session.imported
    /\ ibdState' = "BodiesDownload"
    /\ UNCHANGED <<net, neg, sharedAncestor, hdrs, bods, vtip, staged, scratch,
                   wpc, rlock, session, storeVars>>
    /\ UNCHANGED <<dagVars, nodeVars, locVars, utilVars, readVars, msVars>>

\* Every body is in: the session is over.
BodiesDone ==
    /\ ibdState = "BodiesDownload"
    /\ wpc = "idle"
    /\ MissingBodies = {}
    /\ ibdState' = "Idle"
    /\ session' = [session EXCEPT !.ended = "completed"]
    /\ UNCHANGED <<net, neg, sharedAncestor, hdrs, bods, vtip, staged, scratch,
                   wpc, rlock, storeVars>>
    /\ UNCHANGED <<dagVars, nodeVars, locVars, utilVars, readVars, msVars>>

\* The session fails between two acceptances: nothing is staged, the peer is
\* dropped.
FailBetween(kind) ==
    /\ ibdState # "Idle"
    /\ wpc = "idle"
    /\ kind \in {"timeout", "peerDropped"}
    /\ ibdState' = "Idle"
    /\ session' = [session EXCEPT !.ended = kind]
    /\ UNCHANGED <<net, neg, sharedAncestor, hdrs, bods, vtip, staged, scratch,
                   wpc, rlock, storeVars>>
    /\ UNCHANGED <<dagVars, nodeVars, locVars, utilVars, readVars, msVars>>

\* The session fails while the acceptance task works on a block, before the
\* stores are committed: a header that does not connect is found by the
\* validation, a timeout or a dropped peer cancels the task.
FailWithin(kind) ==
    /\ ibdState # "Idle"
    /\ wpc \in {"locked", "staged"}
    /\ kind = "disconnectedHeader" => ibdState = "HeadersDownload"
    /\ wpc' = "failing"
    /\ session' = [session EXCEPT !.failing = kind]
    /\ UNCHANGED <<net, ibdState, neg, sharedAncestor, hdrs, bods, vtip, staged,
                   scratch, rlock, storeVars>>
    /\ UNCHANGED <<dagVars, nodeVars, locVars, utilVars, readVars, msVars>>

\* The byte store fails while the task commits: the Put of the store's
\* Commit fails, or, with the stores committed into the transaction, a later
\* Put or the transaction's own commit does.
FailStorage ==
    /\ \/ /\ wpc = "staged"
          /\ Commit
          /\ last'.err
       \/ /\ wpc = "flushed"
          /\ UNCHANGED storeVars
    /\ wpc' = "failing"
    /\ session' = [session EXCEPT !.failing = StorageFailure]
    /\ UNCHANGED <<net, ibdState, neg, sharedAncestor, hdrs, bods, vtip, staged,
                   scratch, rlock>>
    /\ UNCHANGED <<dagVars, nodeVars, locVars, utilVars, readVars, msVars>>

\* The failed task releases the staging of every store.
DiscardStaged ==
    /\ wpc = "failing"
    /\ Discard
    /\ staged' = NoStaged
    /\ wpc' = "discarded"
    /\ UNCHANGED <<net, ibdState, neg, sharedAncestor, hdrs, bods, vtip,
                   scratch, rlock, session>>
    /\ UNCHANGED <<dagVars, nodeVars, locVars, utilVars, readVars, msVars>>

\* The failed task rolls its transaction back, releases the write lock and
\* the session is over.
RollbackFailed ==
    /\ wpc = "discarded"
    /\ TxRollback
    /\ wpc' = "idle"
    /\ ibdState' = "Idle"
    /\ session' = [session EXCEPT !.ended = session.failing, !.failing = "none",
                      !.readOnly = (session.failing = StorageFailure)]
    /\ UNCHANGED <<net, neg, sharedAncestor, hdrs, bods, vtip, staged, scratch,
                   rlock>>
    /\ UNCHANGED <<dagVars, nodeVars, locVars, utilVars, readVars, msVars>>

\* A reader takes the read lock.
AcquireRead ==
    /\ wpc = "idle"
    /\ rlock < MaxReaders
    /\ rlock' = rlock + 1
    /\ UNCHANGED <<net, ibdState, neg, sharedAncestor, hdrs, bods, vtip, staged,
                   scratch, wpc, session, storeVars>>
    /\ UNCHANGED <<dagVars, nodeVars, locVars, utilVars, readVars, msVars>>

\* A reader holding the read lock reads the headers-selected tip.
ReadTip ==
    /\ rlock > 0
    /\ CallHeadersSelectedTip
    /\ UNCHANGED ibdVars
    /\ UNCHANGED <<dagVars, nodeVars, locVars, utilVars, readVars, msVars>>

\* A reader releases the read lock.
ReleaseRead ==
    /\ rlock > 0
    /\ rlock' = rlock - 1
    /\ UNCHANGED <<net, ibdState, neg, sharedAncestor, hdrs, bods, vtip, staged,
                   scratch, wpc, session, storeVars>>
    /\ UNCHANGED <<dagVars, nodeVars, locVars, utilVars, readVars, msVars>>



\* The session, while nothing fails.
SessionStep ==
    \/ StartIBD
    \/ NegotiateRound
    \/ AcquireWrite
    \/ StageHeader
    \/ StageImport
    \/ StageBody
    \/ CommitStores
    \/ FinishCommit
    \/ HeadersDone
    \/ ReceiveChunk
    \/ ImportDone
    \/ BodiesDone

NextIBD ==
    \/ SessionStep
    \/ \E kind \in FailureKinds : FailBetween(kind)
    \/ \E kind \in FailureKinds : FailWithin(kind)
    \/ FailStorage
    \/ DiscardStaged
    \/ RollbackFailed
    \/ AcquireRead
    \/ ReadTip
    \/ ReleaseRead

\* The two peers, and no BlockDAG under test.
InitIBDAlone ==
    InitIBD /\ IdleDag /\ IdleNodes /\ IdleLocator /\ IdleUtils
    /\ IdleReaders /\ IdleMultiset

\* The session with readers and failures.
SpecIBD == InitIBDAlone /\ [][NextIBD]_vars

NextIBDNoFailure == SessionStep

\* The session when nothing fails and nobody mines: the session's task runs
\* whenever it can.
SpecIBDNoFailure ==
    InitIBDAlone /\ [][NextIBDNoFailure]_vars /\ WF_vars(NextIBDNoFailure)

(***************************************************************************)
(* Claims about the IBD session.                                           *)
(***************************************************************************)

C2_Allowed ==
    {<<"Idle", "Negotiating">>,
     <<"Negotiating", "HeadersDownload">>,
     <<"HeadersDownload", "PruningPointUTXODownload">>,
     <<"HeadersDownload", "BodiesDownload">>,
     <<"PruningPointUTXODownload", "BodiesDownload">>,
     <<"BodiesDownload", "Idle">>}

\* C2: the IBD state changes only along Idle -> Negotiating ->
\* HeadersDownload -> [PruningPointUTXODownload] -> BodiesDownload -> Idle,
\* or back to Idle on a failure; a body is requested only in BodiesDownload,
\* which is entered only with every header of the syncer in; and
\* PruningPointUTXODownload is entered only when the shared ancestor lies
\* below the syncer's pruning point.
C2_PhaseOrder ==
    [][/\ ibdState' # ibdState =>
            \/ <<ibdState, ibdState'>> \in C2_Allowed
            \/ ibdState' = "Idle"
                  /\ session'.ended \in FailureKinds \cup {StorageFailure}
       /\ (staged'.body # NoBlock /\ staged.body = NoBlock) =>
            (ibdState = "BodiesDownload" /\ hdrs = net.tip)
       /\ ibdState' = "BodiesDownload" => hdrs' = net.tip
       /\ (ibdState' = "PruningPointUTXODownload"
             /\ ibdState # "PruningPointUTXODownload") =>
            sharedAncestor < net.pp]_vars

\* A session that went through the snapshot import and now requests a body;
\* and the shared ancestor was not genesis.
C2_Witness ==
    /\ ibdState = "BodiesDownload"
    /\ session.imported
    /\ staged.body # NoBlock
    /\ sharedAncestor > 0

C4_ReadersSeeWholeCommits ==
    rlock > 0 =>
        /\ HeadersSelectedTip(staging, cache, dbVal).ret = SelectedTipOf(net, hdrs)
        /\ Has(staging, cache, dbVal).ret
        /\ CommittedTip = SelectedTipOf(net, hdrs)
        /\ vtip = SelectedTipOf(net, MaxOf(bods))
        /\ staging = Nil
        /\ staged = NoStaged
        /\ txVal = NoPuts
        /\ last.op = "HeadersSelectedTip" =>
              (last.ret = SelectedTipOf(net, hdrs) /\ ~last.err)

(***************************************************************************)
(* The block locator.  The block-node store holds, for each block it       *)
(* knows, the block's selected parent and blue score; the hash of a block  *)
(* stands for its node.  The factory is called with hashes the store may   *)
(* or may not know.  Blue scores and the step are uint64 in the program    *)
(* and BlueScoreBits bits wide here.                                       *)
(***************************************************************************)

MaxNodes == 3

MaxLocatorLen == 3

\* The most blues a block adds to the blue score of its selected parent.
MaxBlues == 2

\* The width of a blue score (64 in the program).
BlueScoreBits == 5

Uint64(x) == x % (2 ^ BlueScoreBits)

\* A hash of a block no store holds.
UnknownHash == 0 - 2

\* A nil BlockLocator.
NoLocator == <<>>

\* errors.Errorf("block %s is unknown", ...)
ErrUnknown == "block is unknown"

\* errors.Errorf("highNode and lowNode are not in the same selected parent
\* chain.")
ErrNotSameChain == "highNode and lowNode are not in the same selected parent chain."

\* A nil error.
NoError == ""

\* The store of a node that holds genesis alone.
GenesisNodeStore ==
    [h \in {genesisHash} |-> [selectedParent |-> NoBlock, blueScore |-> 0]]

\* The selected parent chain of the BlockLocator comment:
\* genesis -> 1 -> 2 -> ... -> 17 -> 18 (up to 20 in the specification's
\* scenario), the blue score of a block being its ID.
ExampleChain ==
    [h \in 0..20 |-> [selectedParent |-> h - 1, blueScore |-> h]]

\* blockNodeStore.LookupNode: whether the store holds the hash.
LookupNode(hash, store) == hash \in DOMAIN store

\* node.SelectedAncestor(blueScore): walk the selected-parent chain from the
\* node until a node with a blue score of at most blueScore is reached.
RECURSIVE SelectedAncestor(_, _, _)
SelectedAncestor(node, blueScore, store) ==
    IF node = NoBlock THEN NoBlock
    ELSE IF store[node].blueScore <= blueScore THEN node
    ELSE SelectedAncestor(store[node].selectedParent, blueScore, store)

\* The loop of blockLocator.  It returns the locator, or the error, or it
\* never returns: that is when an iteration leaves the node and the step as
\* they were.
RECURSIVE blockLocatorLoop(_, _, _, _, _)
blockLocatorLoop(node, step, locator, lowNode, store) ==
    IF node = NoBlock
    THEN [returns |-> TRUE, locator |-> locator, err |-> NoError]
    ELSE LET appended == Append(locator, node)
         IN  IF store[node].blueScore <= store[lowNode].blueScore
             THEN IF node # lowNode
                  THEN [returns |-> TRUE, locator |-> NoLocator,
                        err |-> ErrNotSameChain]
                  ELSE [returns |-> TRUE, locator |-> appended,
                        err |-> NoError]
             ELSE LET difference == Uint64(store[node].blueScore - step)
                      nextBlueScore ==
                          IF difference < store[lowNode].blueScore
                          THEN store[lowNode].blueScore
                          ELSE difference
                      nextNode == SelectedAncestor(node, nextBlueScore, store)
                      nextStep == Uint64(step * 2)
                  IN  IF nextNode = node /\ nextStep = step
                      THEN [returns |-> FALSE, locator |-> appended,
                            err |-> NoError]
                      ELSE blockLocatorLoop(nextNode, nextStep, appended,
                                            lowNode, store)

\* A blockLocator that starts at the high node itself.
blockLocatorMutFromHigh(highNode, lowNode, store) ==
    blockLocatorLoop(highNode, 1, <<>>, lowNode, store)

\* blockLocator(highNode, lowNode): from the selected parent of the high
\* node, with step 1.
blockLocator(highNode, lowNode, store) ==
    blockLocatorLoop(store[highNode].selectedParent, 1, <<>>, lowNode, store)

\* BlockLocatorFromHashes(highHash, lowHash)
BlockLocatorFromHashes(highHash, lowHash, store) ==
    IF ~LookupNode(highHash, store) \/ ~LookupNode(lowHash, store)
    THEN [returns |-> TRUE, locator |-> NoLocator, err |-> ErrUnknown]
    ELSE blockLocator(highHash, lowHash, store)

\* The index of the first entry of the locator, from index i on, that the
\* store holds; 0 if there is none.
RECURSIVE firstKnown(_, _, _)
firstKnown(locator, i, store) ==
    IF i > Len(locator) THEN 0
    ELSE IF LookupNode(locator[i], store) THEN i
    ELSE firstKnown(locator, i + 1, store)

\* A FindNextLocatorBoundaries whose loop does not break at the first known
\* entry: the last known entry is the one it keeps.
FindNextLocatorBoundariesMutNoBreak(locator, store) ==
    LET known == {j \in 1..Len(locator) : LookupNode(locator[j], store)}
        i == IF known = {} THEN 0
             ELSE CHOOSE j \in known : \A j2 \in known : j2 <= j
        lowNode == IF i = 0 THEN genesisHash ELSE locator[i]
        nextBlockLocatorIndex == IF i = 0 THEN Len(locator) - 1 ELSE (i - 1) - 1
    IN  IF nextBlockLocatorIndex < 0
        THEN [highHash |-> NoBlock, lowHash |-> lowNode]
        ELSE [highHash |-> locator[nextBlockLocatorIndex + 1],
              lowHash |-> lowNode]

\* A FindNextLocatorBoundaries whose nextBlockLocatorIndex starts at 0.
FindNextLocatorBoundariesMutStartIndex(locator, store) ==
    LET i == firstKnown(locator, 1, store)
        lowNode == IF i = 0 THEN genesisHash ELSE locator[i]
        nextBlockLocatorIndex == IF i = 0 THEN 0 ELSE (i - 1) - 1
    IN  IF nextBlockLocatorIndex < 0 \/ locator = <<>>
        THEN [highHash |-> NoBlock, lowHash |-> lowNode]
        ELSE [highHash |-> locator[nextBlockLocatorIndex + 1],
              lowHash |-> lowNode]

\* A FindNextLocatorBoundaries whose nextBlockLocatorIndex is the index of
\* the known entry itself.
FindNextLocatorBoundariesMutSameIndex(locator, store) ==
    LET i == firstKnown(locator, 1, store)
        lowNode == IF i = 0 THEN genesisHash ELSE locator[i]
        nextBlockLocatorIndex == IF i = 0 THEN Len(locator) - 1 ELSE i - 1
    IN  IF nextBlockLocatorIndex < 0
        THEN [highHash |-> NoBlock, lowHash |-> lowNode]
        ELSE [highHash |-> locator[nextBlockLocatorIndex + 1],
              lowHash |-> lowNode]

\* A FindNextLocatorBoundaries that returns the locator's first entry as
\* highHash whenever the first entry is unknown.
FindNextLocatorBoundariesMutHighIsFirst(locator, store) ==
    LET i == firstKnown(locator, 1, store)
        lowNode == IF i = 0 THEN genesisHash ELSE locator[i]
        nextBlockLocatorIndex == IF i = 0 THEN Len(locator) - 1 ELSE (i - 1) - 1
    IN  IF nextBlockLocatorIndex < 0
        THEN [highHash |-> NoBlock, lowHash |-> lowNode]
        ELSE [highHash |-> locator[1], lowHash |-> lowNode]

\* FindNextLocatorBoundaries(locator): lowNode is genesis and
\* nextBlockLocatorIndex is len(locator) - 1 unless the loop finds a known
\* entry, at the program's index i - 1: then lowNode is that entry and
\* nextBlockLocatorIndex is one less than its index.
FindNextLocatorBoundaries(locator, store) ==
    LET i == firstKnown(locator, 1, store)
        lowNode == IF i = 0 THEN genesisHash ELSE locator[i]
        nextBlockLocatorIndex == IF i = 0 THEN Len(locator) - 1 ELSE (i - 1) - 1
    IN  IF nextBlockLocatorIndex < 0
        THEN [highHash |-> NoBlock, lowHash |-> lowNode]
        ELSE [highHash |-> locator[nextBlockLocatorIndex + 1],
              lowHash |-> lowNode]

\* No call on the factory is in progress.
NoLocatorCall == [op |-> "none"]

\* The hashes of the locators a peer sends: genesis, the first two blocks,
\* which the store may hold or not, and a hash no store holds.
LocatorHashes == {genesisHash, 1, 2, UnknownHash}

\* The locators a peer sends: up to MaxLocatorLen hashes.
Locators == UNION {[1..n -> LocatorHashes] : n \in 0..MaxLocatorLen}

\* No negotiation is in progress.
NoNegotiation == [state |-> "none"]

InitLocator ==
    /\ blockNodeStore \in {GenesisNodeStore, ExampleChain}
    /\ locatorCall = NoLocatorCall
    /\ negotiation = NoNegotiation

\* The store learns of a block: its hash is the next one, its selected
\* parent a block of the store, its blue score above its selected parent's.
AddNode(selectedParent, blues) ==
    /\ locatorCall = NoLocatorCall
    /\ Cardinality(DOMAIN blockNodeStore) <= MaxNodes
    /\ selectedParent \in DOMAIN blockNodeStore
    /\ blues >= 1
    /\ LET hash == Cardinality(DOMAIN blockNodeStore)
           node == [selectedParent |-> selectedParent,
                    blueScore |-> blockNodeStore[selectedParent].blueScore
                                  + blues]
       IN  blockNodeStore' = [h \in DOMAIN blockNodeStore \cup {hash} |->
                                 IF h = hash THEN node ELSE blockNodeStore[h]]
    /\ UNCHANGED locatorCall

CallBlockLocatorFromHashes(highHash, lowHash) ==
    /\ locatorCall = NoLocatorCall
    /\ locatorCall' = [op |-> "BlockLocatorFromHashes",
                       highHash |-> highHash, lowHash |-> lowHash,
                       ret |-> BlockLocatorFromHashes(highHash, lowHash,
                                                      blockNodeStore)]
    /\ UNCHANGED blockNodeStore

CallFindNextLocatorBoundaries(locator) ==
    /\ locatorCall = NoLocatorCall
    /\ locatorCall' = [op |-> "FindNextLocatorBoundaries",
                       locator |-> locator,
                       ret |-> FindNextLocatorBoundaries(locator,
                                                         blockNodeStore)]
    /\ UNCHANGED blockNodeStore

\* The caller takes what the call returned, if it returned.
LocatorReturn ==
    /\ locatorCall # NoLocatorCall
    /\ locatorCall.op = "BlockLocatorFromHashes" => locatorCall.ret.returns
    /\ locatorCall' = NoLocatorCall
    /\ UNCHANGED blockNodeStore

NextLocator ==
    \/ /\ \E selectedParent \in DOMAIN blockNodeStore :
            \E blues \in 1..MaxBlues : AddNode(selectedParent, blues)
       /\ UNCHANGED <<storeVars, dagVars, ibdVars, nodeVars, negotiation, utilVars, readVars, msVars>>
    \/ /\ \E highHash \in DOMAIN blockNodeStore \cup {UnknownHash} :
            \E lowHash \in DOMAIN blockNodeStore \cup {UnknownHash} :
               CallBlockLocatorFromHashes(highHash, lowHash)
       /\ UNCHANGED <<storeVars, dagVars, ibdVars, nodeVars, negotiation, utilVars, readVars, msVars>>
    \/ /\ \E locator \in Locators : CallFindNextLocatorBoundaries(locator)
       /\ UNCHANGED <<storeVars, dagVars, ibdVars, nodeVars, negotiation, utilVars, readVars, msVars>>
    \/ LocatorReturn /\ UNCHANGED <<storeVars, dagVars, ibdVars, nodeVars, negotiation, utilVars, readVars, msVars>>

InitLocatorAlone ==
    InitLocator /\ IdleStore /\ IdleDag /\ IdleIBD /\ IdleNodes /\ IdleUtils
    /\ IdleReaders /\ IdleMultiset

SpecLocator == InitLocatorAlone /\ [][NextLocator]_vars

(***************************************************************************)
(* Claims about the block locator.                                         *)
(***************************************************************************)

\* The blocks of the selected-parent chain of a block, the block included.
RECURSIVE SelectedChainOf(_, _)
SelectedChainOf(node, store) ==
    IF node = NoBlock THEN {}
    ELSE {node} \cup SelectedChainOf(store[node].selectedParent, store)

\* The indexes of the entries of the locator in the call that the store
\* holds.
KnownEntries ==
    {i \in 1..Len(locatorCall.locator) :
        LookupNode(locatorCall.locator[i], blockNodeStore)}

\* C15: whenever BlockLocatorFromHashes(highHash, lowHash) returns a locator
\* without error, the locator is non-empty and its last entry is lowHash; in
\* every other case it returns an error.
C15_LocatorEndsAtLow ==
    locatorCall.op = "BlockLocatorFromHashes" =>
        /\ locatorCall.ret.returns
        /\ locatorCall.ret.err = NoError =>
              /\ locatorCall.ret.locator # <<>>
              /\ locatorCall.ret.locator[Len(locatorCall.ret.locator)]
                    = locatorCall.lowHash

\* C16: the locator is built with doubling steps.  On the chain of blocks
\* 0..20, a locator returned without error has its entries 1, 2, 4, 8, ...
\* blue scores apart, the last step clamped so that the final entry is low;
\* for high = 17 and low = genesis it is [17, 16, 14, 11, 7, 2, genesis].
C16_DoublingSteps ==
    (locatorCall.op = "BlockLocatorFromHashes" /\ blockNodeStore = ExampleChain)
    =>
        /\ locatorCall.ret.returns
        /\ locatorCall.ret.err = NoError =>
              LET locator == locatorCall.ret.locator
              IN  /\ locator # <<>>
                  /\ locator[Len(locator)] = locatorCall.lowHash
                  /\ \A i \in 1..(Len(locator) - 1) :
                        LET distance ==
                                blockNodeStore[locator[i]].blueScore
                                - blockNodeStore[locator[i + 1]].blueScore
                        IN  \/ distance = 2 ^ (i - 1)
                            \/ /\ i = Len(locator) - 1
                               /\ distance >= 1
                               /\ distance <= 2 ^ (i - 1)
        /\ (locatorCall.highHash = 17 /\ locatorCall.lowHash = genesisHash) =>
              /\ locatorCall.ret.err = NoError
              /\ locatorCall.ret.locator = <<17, 16, 14, 11, 7, 2, genesisHash>>

\* C17: for every pair of blocks the store holds such that low is not on the
\* selected-parent chain of high, BlockLocatorFromHashes(high, low) returns
\* an error and no locator.
C17_OffChainIsError ==
    ( /\ locatorCall.op = "BlockLocatorFromHashes"
      /\ LookupNode(locatorCall.highHash, blockNodeStore)
      /\ LookupNode(locatorCall.lowHash, blockNodeStore)
      /\ locatorCall.lowHash
           \notin SelectedChainOf(locatorCall.highHash, blockNodeStore) )
    =>
        /\ locatorCall.ret.returns
        /\ locatorCall.ret.err # NoError
        /\ locatorCall.ret.locator = NoLocator

\* C18 as stated: FindNextLocatorBoundaries(locator) returns highHash = the
\* first locator entry that is unknown locally and lowHash = the locator
\* entry immediately before it, which is known locally.
C18_FirstUnknownAndEntryBefore ==
    locatorCall.op = "FindNextLocatorBoundaries" =>
        LET locator == locatorCall.locator
            unknown == (1..Len(locator)) \ KnownEntries
        IN  \A j \in unknown :
                ((\A i \in unknown : j <= i) /\ j > 1) =>
                    /\ locatorCall.ret.highHash = locator[j]
                    /\ locatorCall.ret.lowHash = locator[j - 1]

\* C18, amended: FindNextLocatorBoundaries(locator) returns lowHash = the
\* first locator entry that is known locally and highHash = the locator
\* entry immediately before it, which is unknown locally (nil if that known
\* entry is the locator's first).
C18_FirstKnownAndEntryBefore ==
    locatorCall.op = "FindNextLocatorBoundaries" =>
        LET locator == locatorCall.locator
        IN  \A i \in KnownEntries :
                (\A j \in KnownEntries : i <= j) =>
                    /\ locatorCall.ret.lowHash = locator[i]
                    /\ i > 1 =>
                          /\ locatorCall.ret.highHash = locator[i - 1]
                          /\ ~LookupNode(locator[i - 1], blockNodeStore)
                    /\ i = 1 => locatorCall.ret.highHash = NoBlock

\* A locator of two different unknown entries and then a known one: the
\* call returned the second entry as high and the third as low.
C18_Witness ==
    /\ locatorCall.op = "FindNextLocatorBoundaries"
    /\ Len(locatorCall.locator) = 3
    /\ KnownEntries = {3}
    /\ locatorCall.locator[1] # locatorCall.locator[2]
    /\ locatorCall.ret.highHash = locatorCall.locator[2]
    /\ locatorCall.ret.lowHash = locatorCall.locator[3]

\* C19: if no entry of the locator is known locally (the empty locator
\* included), FindNextLocatorBoundaries returns lowHash = the genesis hash,
\* and highHash = the last locator entry, or nil for the empty locator.
C19_NoneKnown ==
    (locatorCall.op = "FindNextLocatorBoundaries" /\ KnownEntries = {}) =>
        /\ locatorCall.ret.lowHash = genesisHash
        /\ locatorCall.ret.highHash =
              IF locatorCall.locator = <<>> THEN NoBlock
              ELSE locatorCall.locator[Len(locatorCall.locator)]

\* A locator of unknown entries, the last one different from the first: the
\* call returned the last one as high and genesis as low.
C19_Witness ==
    /\ locatorCall.op = "FindNextLocatorBoundaries"
    /\ KnownEntries = {}
    /\ Len(locatorCall.locator) >= 2
    /\ locatorCall.locator[1] # locatorCall.locator[Len(locatorCall.locator)]
    /\ locatorCall.ret.lowHash = genesisHash
    /\ locatorCall.ret.highHash # NoBlock

\* C20: if the first locator entry is known locally, FindNextLocatorBoundaries
\* returns highHash = nil and lowHash = that first entry, whatever the
\* remaining entries are.
C20_FirstKnown ==
    (locatorCall.op = "FindNextLocatorBoundaries" /\ 1 \in KnownEntries) =>
        /\ locatorCall.ret.highHash = NoBlock
        /\ locatorCall.ret.lowHash = locatorCall.locator[1]

\* A locator whose first entry is known and is not genesis, followed by an
\* unknown entry and another known one.
C20_Witness ==
    /\ locatorCall.op = "FindNextLocatorBoundaries"
    /\ Len(locatorCall.locator) = 3
    /\ KnownEntries = {1, 3}
    /\ locatorCall.locator[1] # genesisHash
    /\ locatorCall.locator[3] # locatorCall.locator[1]
    /\ locatorCall.ret.highHash = NoBlock

\* The locator in the call runs from high to low along one selected-parent
\* chain: no hash comes twice, the entries the store holds descend along the
\* selected-parent chain of the first of them, and no entry the store lacks
\* comes after one it holds (the store holds the selected parent of every
\* block it holds).
C32_OrderedHighToLow ==
    /\ locatorCall.op = "FindNextLocatorBoundaries"
    /\ LET locator == locatorCall.locator
       IN  /\ \A i, j \in 1..Len(locator) : i < j => locator[i] # locator[j]
           /\ \A i \in KnownEntries : \A j \in 1..Len(locator) :
                  i < j =>
                     /\ j \in KnownEntries
                     /\ locator[j] \in SelectedChainOf(locator[i],
                                                       blockNodeStore)

\* C32: for a locator ordered high-to-low, FindNextLocatorBoundaries returns
\* as lowHash the highest known locator hash, which is the first entry the
\* store holds, and as highHash the lowest unknown locator hash, which is
\* the entry immediately before lowHash in the locator.
C32_HighestKnownLowestUnknown ==
    C32_OrderedHighToLow =>
        LET locator == locatorCall.locator
            unknown == (1..Len(locator)) \ KnownEntries
        IN  /\ \A i \in KnownEntries :
                   (\A j \in KnownEntries : i <= j) =>
                      /\ locatorCall.ret.lowHash = locator[i]
                      /\ \A j \in KnownEntries :
                            blockNodeStore[locator[j]].blueScore
                               <= blockNodeStore[locator[i]].blueScore
                      /\ unknown # {} =>
                            /\ i - 1 \in unknown
                            /\ locatorCall.ret.highHash = locator[i - 1]
            /\ \A u \in unknown :
                   (\A j \in unknown : j <= u) =>
                      locatorCall.ret.highHash = locator[u]

\* An ordered locator of two entries the store lacks and then one it holds,
\* which is not genesis: the second entry is returned as high, the third as
\* low.
C32_Witness ==
    /\ C32_OrderedHighToLow
    /\ Len(locatorCall.locator) = 3
    /\ KnownEntries = {3}
    /\ locatorCall.locator[3] # genesisHash
    /\ locatorCall.ret.highHash = locatorCall.locator[2]
    /\ locatorCall.ret.lowHash = locatorCall.locator[3]

\* BlockLocatorFromHashes was called with two blocks the store holds.
KnownPairCall ==
    /\ locatorCall.op = "BlockLocatorFromHashes"
    /\ LookupNode(locatorCall.highHash, blockNodeStore)
    /\ LookupNode(locatorCall.lowHash, blockNodeStore)

\* The step of the iteration that appends the i-th entry: it starts at 1
\* and is doubled at the end of every iteration.
StepAt(i) == Uint64(2 ^ (i - 1))

\* C39: blockLocator terminates for every pair of known blocks and its
\* uint64 arithmetic never wraps: the step is never 0, and at every node
\* above low the step does not exceed the node's blue score unless the
\* target is clamped, so that the next entry is the selected ancestor of
\* the node at the blue score max(low's blue score, node's blue score -
\* step).
C39_TerminatesWithoutWrap ==
    KnownPairCall =>
        LET locator == locatorCall.ret.locator
            low == blockNodeStore[locatorCall.lowHash].blueScore
        IN  /\ locatorCall.ret.returns
            /\ \A i \in 1..Len(locator) :
                  LET score == blockNodeStore[locator[i]].blueScore
                  IN  /\ StepAt(i) # 0
                      /\ i < Len(locator) =>
                            locator[i + 1] =
                               SelectedAncestor(locator[i],
                                  IF score - StepAt(i) < low THEN low
                                  ELSE score - StepAt(i),
                                  blockNodeStore)

SynceeOnlyBlock == 0 - 3

\* The syncee's store: the syncer's blocks it knows and its own blocks.
SynceeStore(known, own) ==
    [h \in known \cup own |->
        IF h \in DOMAIN blockNodeStore THEN blockNodeStore[h]
        ELSE [selectedParent |-> genesisHash, blueScore |-> 1]]

\* The blue-score gap between two blocks of the syncer.
Gap(highHash, lowHash) ==
    blockNodeStore[highHash].blueScore - blockNodeStore[lowHash].blueScore

\* A syncee that lacks the syncer's selected tip connects.  It knows genesis
\* and, with a block, the block's selected parent.
StartNegotiation(tip, known, own) ==
    /\ negotiation = NoNegotiation
    /\ locatorCall = NoLocatorCall
    /\ tip \in DOMAIN blockNodeStore
    /\ known \subseteq DOMAIN blockNodeStore
    /\ genesisHash \in known
    /\ tip \notin known
    /\ \A h \in known \ {genesisHash} : blockNodeStore[h].selectedParent \in known
    /\ negotiation' = [state |-> "request", tip |-> tip,
                       store |-> SynceeStore(known, own),
                       highHash |-> tip, lowHash |-> genesisHash,
                       rounds |-> 0, previousGap |-> Gap(tip, genesisHash),
                       result |-> NoBlock]
    /\ UNCHANGED <<blockNodeStore, locatorCall>>

\* The syncer is asked for the locator between high and low.
RequestLocator ==
    /\ negotiation.state = "request"
    /\ CallBlockLocatorFromHashes(negotiation.highHash, negotiation.lowHash)
    /\ negotiation' = [negotiation EXCEPT !.state = "reply"]

\* The syncee receives the locator, once the syncer's call has returned.
ReceiveLocator ==
    /\ negotiation.state = "reply"
    /\ locatorCall.ret.returns
    /\ LET locator == locatorCall.ret.locator
       IN  IF locatorCall.ret.err # NoError \/ locator = <<>>
           THEN negotiation' = [negotiation EXCEPT !.state = "failed"]
           ELSE IF LookupNode(locator[1], negotiation.store)
           THEN negotiation' = [negotiation EXCEPT !.state = "done",
                                                   !.result = locator[1]]
           ELSE LET next == FindNextLocatorBoundaries(locator,
                                                      negotiation.store)
                IN  negotiation' =
                        [negotiation EXCEPT
                            !.state = "request",
                            !.highHash = next.highHash,
                            !.lowHash = next.lowHash,
                            !.rounds = @ + 1,
                            !.previousGap = Gap(negotiation.highHash,
                                                negotiation.lowHash)]
    /\ locatorCall' = NoLocatorCall
    /\ UNCHANGED blockNodeStore

NextNegotiation ==
    \/ /\ negotiation = NoNegotiation
       /\ \E selectedParent \in DOMAIN blockNodeStore :
            \E blues \in 1..MaxBlues : AddNode(selectedParent, blues)
       /\ UNCHANGED <<storeVars, dagVars, ibdVars, nodeVars, negotiation, utilVars, readVars, msVars>>
    \/ /\ \E tip \in DOMAIN blockNodeStore :
            \E known \in SUBSET (DOMAIN blockNodeStore) :
               \E own \in {{}, {SynceeOnlyBlock}} :
                  StartNegotiation(tip, known, own)
       /\ UNCHANGED <<storeVars, dagVars, ibdVars, nodeVars, utilVars, readVars, msVars>>
    \/ RequestLocator /\ UNCHANGED <<storeVars, dagVars, ibdVars, nodeVars, utilVars, readVars, msVars>>
    \/ ReceiveLocator /\ UNCHANGED <<storeVars, dagVars, ibdVars, nodeVars, utilVars, readVars, msVars>>

InitNegotiation ==
    /\ blockNodeStore = GenesisNodeStore
    /\ locatorCall = NoLocatorCall
    /\ negotiation = NoNegotiation

InitNegotiationAlone ==
    InitNegotiation /\ IdleStore /\ IdleDag /\ IdleIBD /\ IdleNodes /\ IdleUtils
    /\ IdleReaders /\ IdleMultiset

\* Each peer's flow keeps running: a step that can be taken is taken.
SpecNegotiation ==
    InitNegotiationAlone /\ [][NextNegotiation]_vars /\ WF_vars(NextNegotiation)

\* The highest block of the selected-parent chain of the syncer's tip that
\* the syncee knows.
HighestShared ==
    CHOOSE h \in SelectedChainOf(negotiation.tip, blockNodeStore)
               \cap DOMAIN negotiation.store :
        \A g \in SelectedChainOf(negotiation.tip, blockNodeStore)
                  \cap DOMAIN negotiation.store :
            blockNodeStore[g].blueScore <= blockNodeStore[h].blueScore

\* C21: locator negotiation terminates.  The blue-score gap between high and
\* low strictly shrinks each round, and after finitely many rounds the
\* negotiation ends at the highest block of the syncer's selected-parent
\* chain that the syncee also knows, also when the syncee holds blocks the
\* syncer lacks.
C21_NegotiationTerminates ==
    /\ [](negotiation.state = "request" /\ negotiation.rounds > 0 =>
            Gap(negotiation.highHash, negotiation.lowHash)
                < negotiation.previousGap)
    /\ [](negotiation.state = "done" => negotiation.result = HighestShared)
    /\ (negotiation.state = "request" ~> negotiation.state = "done")

(***************************************************************************)
(* UTXO iterators with a diff.  A UTXO entry is kept by its blue score; a  *)
(* utxoCollection maps outpoints to entries; a base iterator walks a       *)
(* collection by ascending outpoint; the toAdd iterator walks a Go map, in *)
(* any order.                                                              *)
(***************************************************************************)

MaxOutpoints == 2

\* How many times Next is called on an iterator after it first returned
\* false.
MaxNextAfterEnd == 2

Outpoints == 1..MaxOutpoints

\* The blue scores entries carry.
UtxoBlueScores == {1, 2}

UtxoEntries == [blockBlueScore : UtxoBlueScores]

UtxoCollections == UNION {[S -> UtxoEntries] : S \in SUBSET Outpoints}

UtxoDiffs == [toAdd : UtxoCollections, toRemove : UtxoCollections]

\* The (outpoint, entry) pairs of a collection.
PairsOf(collection) == {<<o, collection[o]>> : o \in DOMAIN collection}

\* utxoCollection.containsWithBlueScore: the collection holds the outpoint
\* with an entry of that blue score.
containsWithBlueScore(collection, outpoint, blueScore) ==
    /\ outpoint \in DOMAIN collection
    /\ collection[outpoint].blockBlueScore = blueScore

\* An iterator over a stored UTXO set: the pairs still to come.
RECURSIVE pairsFrom(_, _)
pairsFrom(collection, o) ==
    IF o > MaxOutpoints THEN <<>>
    ELSE (IF o \in DOMAIN collection THEN <<(<<o, collection[o]>>)>> ELSE <<>>)
         \o pairsFrom(collection, o + 1)

BaseIterator(collection) == [kind |-> "base", rest |-> pairsFrom(collection, 1)]

\* apply(B, D) = (B u A) \ R over (outpoint, entry) pairs.
ApplyDiff(pairs, diff) == (pairs \cup PairsOf(diff.toAdd)) \ PairsOf(diff.toRemove)

\* The invariant of a diff over a base set: no outpoint is in both
\* collections, toAdd has no outpoint of the base and toRemove has entries
\* of the base only.
IsDiffOver(diff, pairs) ==
    /\ DOMAIN diff.toAdd \cap DOMAIN diff.toRemove = {}
    /\ \A o \in DOMAIN diff.toAdd : \A pair \in pairs : pair[1] # o
    /\ PairsOf(diff.toRemove) \subseteq pairs

\* The collection of a set of pairs with distinct outpoints.
CollectionOf(pairs) ==
    [o \in {pair[1] : pair \in pairs} |->
        (CHOOSE pair \in pairs : pair[1] = o)[2]]

\* utxoDiff.WithDiff: the diff that has the effect of d1 and then d2.  An
\* entry d2 removes that d1 added is in neither collection, and so is an
\* entry d2 adds that d1 removed.  It fails when both add or both remove an
\* outpoint.
WithDiff(d1, d2) ==
    IF \/ \E o \in DOMAIN d1.toRemove \cap DOMAIN d2.toRemove :
             ~containsWithBlueScore(d1.toAdd, o, d2.toRemove[o].blockBlueScore)
       \/ \E o \in DOMAIN d1.toAdd \cap DOMAIN d2.toAdd :
             ~containsWithBlueScore(d2.toRemove, o, d1.toAdd[o].blockBlueScore)
    THEN [err |-> "ErrDiffCompose", diff |-> <<>>]
    ELSE [err |-> NoError,
          diff |-> [toAdd |-> CollectionOf(
                                 (PairsOf(d1.toAdd) \ PairsOf(d2.toRemove))
                                 \cup (PairsOf(d2.toAdd) \ PairsOf(d1.toRemove))),
                    toRemove |-> CollectionOf(
                                 (PairsOf(d1.toRemove) \ PairsOf(d2.toAdd))
                                 \cup (PairsOf(d2.toRemove) \ PairsOf(d1.toAdd)))]]

NoIterator == [kind |-> "none"]

\* A flattening that keeps the new diff only.
RECURSIVE IteratorWithDiffMutDropsDiff(_, _)
IteratorWithDiffMutDropsDiff(iterator, diff) ==
    IF iterator.kind = "withDiff"
    THEN IteratorWithDiffMutDropsDiff(iterator.baseIterator, diff)
    ELSE [iter |-> [kind |-> "withDiff",
                    baseIterator |-> iterator,
                    diff |-> diff,
                    toAddIterator |-> DOMAIN diff.toAdd],
          err |-> NoError]

\* IteratorWithDiff: an iterator that is itself an iterator with a diff is
\* replaced by its base iterator under the composed diff.
RECURSIVE IteratorWithDiff(_, _)
IteratorWithDiff(iterator, diff) ==
    IF iterator.kind = "withDiff"
    THEN LET combinedDiff == WithDiff(iterator.diff, diff)
         IN  IF combinedDiff.err # NoError
             THEN [iter |-> NoIterator, err |-> combinedDiff.err]
             ELSE IteratorWithDiff(iterator.baseIterator, combinedDiff.diff)
    ELSE [iter |-> [kind |-> "withDiff",
                    baseIterator |-> iterator,
                    diff |-> diff,
                    toAddIterator |-> DOMAIN diff.toAdd],
          err |-> NoError]

\* A loop that ends the base iterator at the first entry the diff removes.
RECURSIVE nextFromBaseMutStopsAtRemoved(_, _)
nextFromBaseMutStopsAtRemoved(rest, diff) ==
    IF rest = <<>> THEN [found |-> FALSE, rest |-> <<>>]
    ELSE IF ~containsWithBlueScore(diff.toRemove, Head(rest)[1],
                                   Head(rest)[2].blockBlueScore)
         THEN [found |-> TRUE, rest |-> rest]
         ELSE [found |-> FALSE, rest |-> <<>>]

\* A loop that yields every base entry, removed or not.
RECURSIVE nextFromBaseMutNoSkip(_, _)
nextFromBaseMutNoSkip(rest, diff) ==
    IF rest = <<>> THEN [found |-> FALSE, rest |-> <<>>]
    ELSE [found |-> TRUE, rest |-> rest]

\* The loop of Next over the base iterator: the remaining pairs from the
\* first one the diff does not remove.
RECURSIVE nextFromBase(_, _)
nextFromBase(rest, diff) ==
    IF rest = <<>> THEN [found |-> FALSE, rest |-> <<>>]
    ELSE IF ~containsWithBlueScore(diff.toRemove, Head(rest)[1],
                                   Head(rest)[2].blockBlueScore)
         THEN [found |-> TRUE, rest |-> rest]
         ELSE nextFromBase(Tail(rest), diff)

NoUtilCall == [op |-> "none"]

\* utxo.IteratorWithDiff(base iterator, diff), for any collection and diff.
CallIteratorWithDiff ==
    /\ utilCall = NoUtilCall
    /\ \E base \in UtxoCollections, diff \in UtxoDiffs :
         LET made == IteratorWithDiff(BaseIterator(base), diff)
         IN  utilCall' = [op |-> "IteratorWithDiff", base |-> base,
                          diffs |-> <<diff>>, iter |-> made.iter,
                          err |-> made.err, yielded |-> <<>>, more |-> TRUE,
                          ended |-> 0]

\* utxo.IteratorWithDiff(an iterator with a diff, a second diff), for diffs
\* over their bases.
CallIteratorWithDiffAgain ==
    /\ utilCall.op = "IteratorWithDiff"
    /\ Len(utilCall.diffs) = 1
    /\ utilCall.yielded = <<>>
    /\ utilCall.more
    /\ IsDiffOver(utilCall.diffs[1], PairsOf(utilCall.base))
    /\ \E diff \in UtxoDiffs :
         /\ IsDiffOver(diff, ApplyDiff(PairsOf(utilCall.base), utilCall.diffs[1]))
         /\ LET made == IteratorWithDiff(utilCall.iter, diff)
            IN  utilCall' = [utilCall EXCEPT !.diffs = Append(@, diff),
                                             !.iter = made.iter,
                                             !.err = made.err]

\* readOnlyUTXOIteratorWithDiff.Next, followed by Get when it returned true.
\* more is what the last Next returned, ended the number of calls of Next
\* that returned false.
IteratorNext ==
    /\ utilCall.op = "IteratorWithDiff"
    /\ utilCall.err = NoError
    /\ utilCall.ended < MaxNextAfterEnd
    /\ LET r == utilCall.iter
           fromBase == nextFromBase(r.baseIterator.rest, r.diff)
       IN  IF fromBase.found
           THEN utilCall' = [utilCall EXCEPT
                    !.iter.baseIterator.rest = Tail(fromBase.rest),
                    !.more = TRUE,
                    !.yielded = Append(@, [outpoint |-> Head(fromBase.rest)[1],
                                           entry |-> Head(fromBase.rest)[2],
                                           from |-> "base"])]
           ELSE IF r.toAddIterator # {}
           THEN \E o \in r.toAddIterator :
                  utilCall' = [utilCall EXCEPT
                    !.iter.baseIterator.rest = <<>>,
                    !.iter.toAddIterator = @ \ {o},
                    !.more = TRUE,
                    !.yielded = Append(@, [outpoint |-> o,
                                           entry |-> r.diff.toAdd[o],
                                           from |-> "toAdd"])]
           ELSE utilCall' = [utilCall EXCEPT !.iter.baseIterator.rest = <<>>,
                                             !.more = FALSE,
                                             !.ended = @ + 1]

NextUtxo ==
    \/ CallIteratorWithDiff
          /\ UNCHANGED <<storeVars, dagVars, ibdVars, nodeVars, locVars, callerTx, readVars, msVars>>
    \/ CallIteratorWithDiffAgain
          /\ UNCHANGED <<storeVars, dagVars, ibdVars, nodeVars, locVars, callerTx, readVars, msVars>>
    \/ IteratorNext
          /\ UNCHANGED <<storeVars, dagVars, ibdVars, nodeVars, locVars, callerTx, readVars, msVars>>

InitUtxoAlone ==
    /\ IdleStore /\ IdleDag /\ IdleIBD /\ IdleNodes /\ IdleLocator
    /\ IdleReaders /\ IdleMultiset
    /\ utilCall = NoUtilCall
    /\ callerTx = <<>>

SpecUtxo == InitUtxoAlone /\ [][NextUtxo]_vars

\* The pairs the iterator has yielded.
YieldedPairs == {<<utilCall.yielded[i].outpoint, utilCall.yielded[i].entry>> :
                    i \in DOMAIN utilCall.yielded}

IteratorCall == utilCall.op = "IteratorWithDiff"

\* C22 as stated: the iterator never yields a base entry whose outpoint is
\* in the diff's toRemove, whatever blue score the base entry carries.
C22_NeverYieldsRemovedOutpoint ==
    IteratorCall /\ utilCall.err = NoError =>
        \A i \in DOMAIN utilCall.yielded :
            utilCall.yielded[i].from = "base" =>
                utilCall.yielded[i].outpoint \notin DOMAIN utilCall.iter.diff.toRemove

\* C22 amended: the iterator never yields a base entry whose outpoint is in
\* the diff's toRemove with the blue score the base entry carries, and once
\* the iterator is exhausted it has yielded every other base entry, those
\* whose outpoint is in toRemove with another blue score included.
C22_NeverYieldsRemovedEntry ==
    IteratorCall /\ utilCall.err = NoError =>
        /\ \A i \in DOMAIN utilCall.yielded :
              utilCall.yielded[i].from = "base" =>
                <<utilCall.yielded[i].outpoint, utilCall.yielded[i].entry>>
                    \notin PairsOf(utilCall.iter.diff.toRemove)
        /\ ~utilCall.more =>
              \A pair \in PairsOf(utilCall.base) \ PairsOf(utilCall.iter.diff.toRemove) :
                \E i \in DOMAIN utilCall.yielded :
                    /\ utilCall.yielded[i].from = "base"
                    /\ utilCall.yielded[i].outpoint = pair[1]
                    /\ utilCall.yielded[i].entry = pair[2]

\* An exhausted iterator that skipped one base entry and yielded another
\* whose outpoint toRemove holds with a different blue score.
C22_Witness ==
    /\ IteratorCall /\ utilCall.err = NoError /\ ~utilCall.more
    /\ Len(utilCall.diffs) = 1
    /\ \E o \in DOMAIN utilCall.base :
          containsWithBlueScore(utilCall.diffs[1].toRemove, o,
                                utilCall.base[o].blockBlueScore)
    /\ \E i \in DOMAIN utilCall.yielded :
          /\ utilCall.yielded[i].from = "base"
          /\ utilCall.yielded[i].outpoint \in DOMAIN utilCall.diffs[1].toRemove

\* C23: IteratorWithDiff(IteratorWithDiff(b, d1), d2), for d1 a diff over
\* the base set and d2 a diff over the base set with d1 applied, is an
\* iterator directly over b with the single diff d1.WithDiff(d2), and it
\* yields the pairs of the base set with d1 and then d2 applied.
C23_ComposedIteratorIsFlat ==
    IteratorCall /\ Len(utilCall.diffs) = 2 =>
        LET d1 == utilCall.diffs[1]
            d2 == utilCall.diffs[2]
            applied == ApplyDiff(ApplyDiff(PairsOf(utilCall.base), d1), d2)
        IN  /\ utilCall.err = NoError
            /\ utilCall.iter.kind = "withDiff"
            /\ utilCall.iter.baseIterator.kind = "base"
            /\ utilCall.iter.diff = WithDiff(d1, d2).diff
            /\ YieldedPairs \subseteq applied
            /\ Len(utilCall.yielded) = Cardinality(YieldedPairs)
            /\ ~utilCall.more => YieldedPairs = applied

\* An exhausted composed iterator whose second diff removes an entry the
\* first added and adds back, with another blue score, an entry the first
\* removed.
C23_Witness ==
    /\ IteratorCall /\ Len(utilCall.diffs) = 2 /\ ~utilCall.more
    /\ PairsOf(utilCall.diffs[2].toRemove) \cap PairsOf(utilCall.diffs[1].toAdd) # {}
    /\ \E o \in DOMAIN utilCall.diffs[1].toRemove \cap DOMAIN utilCall.diffs[2].toAdd :
          utilCall.diffs[1].toRemove[o] # utilCall.diffs[2].toAdd[o]
    /\ YieldedPairs # {}

\* The iterator was made over a base set B with one diff D = (A, R) that is
\* valid over B: A is disjoint from B and R is a subset of B.
C33_ValidDiff ==
    /\ IteratorCall
    /\ Len(utilCall.diffs) = 1
    /\ PairsOf(utilCall.diffs[1].toAdd) \cap PairsOf(utilCall.base) = {}
    /\ PairsOf(utilCall.diffs[1].toRemove) \subseteq PairsOf(utilCall.base)

\* C33: for a diff D = (A, R) valid over the base set B, repeated Next/Get
\* on IteratorWithDiff(B, D) yields every entry of (B u A) \ R exactly
\* once, the surviving base entries in base order before any entry of A,
\* and after that Next returns false on every further call.
C33_YieldsAppliedSetOnce ==
    C33_ValidDiff =>
        LET B == PairsOf(utilCall.base)
            A == PairsOf(utilCall.diffs[1].toAdd)
            R == PairsOf(utilCall.diffs[1].toRemove)
            y == utilCall.yielded
        IN  /\ utilCall.err = NoError
            /\ YieldedPairs \subseteq (B \cup A) \ R
            /\ Len(y) = Cardinality(YieldedPairs)
            /\ \A i \in DOMAIN y :
                  /\ y[i].from = "base" => <<y[i].outpoint, y[i].entry>> \in B
                  /\ y[i].from = "toAdd" => <<y[i].outpoint, y[i].entry>> \in A
            /\ \A i, j \in DOMAIN y :
                  (i < j /\ y[j].from = "base") =>
                      /\ y[i].from = "base"
                      /\ y[i].outpoint < y[j].outpoint
            /\ (\E i \in DOMAIN y : y[i].from = "toAdd") =>
                  B \ R \subseteq YieldedPairs
            /\ utilCall.ended >= 1 =>
                  /\ ~utilCall.more
                  /\ YieldedPairs = (B \cup A) \ R

\* An iterator whose diff removes one base entry, keeps another and adds
\* an entry has yielded the kept and the added one, and Next has returned
\* false twice.
C33_Witness ==
    /\ C33_ValidDiff
    /\ utilCall.ended >= 2
    /\ utilCall.diffs[1].toRemove # <<>>
    /\ Len(utilCall.yielded) >= 2
    /\ utilCall.yielded[1].from = "base"
    /\ utilCall.yielded[Len(utilCall.yielded)].from = "toAdd"

(***************************************************************************)
(* Transaction scripts.  A script is a sequence of bytes; the opcode table *)
(* gives each opcode its length: 1 for an opcode alone, n + 1 for          *)
(* OP_DATA_n, and -1, -2, -4 for OP_PUSHDATA1, 2, 4, whose length prefix   *)
(* has that many bytes.                                                    *)
(***************************************************************************)

MaxScriptLen == 4

Op0 == 0
OpData1 == 1
OpData20 == 20
OpData75 == 75
OpPushData1 == 76
OpPushData2 == 77
OpPushData4 == 78
Op1 == 81
Op16 == 96
OpEqual == 135
OpHash160 == 169
OpCheckSig == 172
OpCheckSigVerify == 173
OpCheckMultiSig == 174
OpCheckMultiSigVerify == 175

MaxPubKeysPerMultiSig == 20

ErrMalformedPush == "ErrMalformedPush"

\* opcodeArray[instr].length.
opcodeLength(instr) ==
    IF instr >= OpData1 /\ instr <= OpData75 THEN instr + 1
    ELSE IF instr = OpPushData1 THEN 0 - 1
    ELSE IF instr = OpPushData2 THEN 0 - 2
    ELSE IF instr = OpPushData4 THEN 0 - 4
    ELSE 1

\* The little endian number of the bytes script[off .. off + n - 1]; a
\* number of 2^30 or more, longer than any script, is kept as 2^30.
RECURSIVE littleEndian(_, _, _)
littleEndian(script, off, n) ==
    IF n = 0 THEN 0
    ELSE LET high == littleEndian(script, off + 1, n - 1)
         IN  IF high >= 2 ^ 22 THEN 2 ^ 30 ELSE script[off] + 256 * high

\* The n bytes of a number, little endian.
RECURSIVE putLittleEndian(_, _)
putLittleEndian(x, n) ==
    IF n = 0 THEN <<>> ELSE <<x % 256>> \o putLittleEndian(x \div 256, n - 1)

\* A parse that takes a fixed push that ends with the script for an
\* overrun.
RECURSIVE parseScriptTemplateMutOffByOne(_, _)
parseScriptTemplateMutOffByOne(script, i) ==
    IF i > Len(script) THEN [pops |-> <<>>, err |-> NoError]
    ELSE
    LET instr == script[i]
        length == opcodeLength(instr)
        remaining == Len(script) - i + 1
        then(pop, next) ==
            LET rest == parseScriptTemplateMutOffByOne(script, next)
            IN  [pops |-> <<pop>> \o rest.pops, err |-> rest.err]
    IN  IF length = 1
        THEN then([opcode |-> instr, data |-> <<>>, at |-> i], i + 1)
        ELSE IF length > 1
        THEN IF remaining <= length
             THEN [pops |-> <<>>, err |-> ErrMalformedPush]
             ELSE then([opcode |-> instr,
                        data |-> SubSeq(script, i + 1, i + length - 1),
                        at |-> i], i + length)
        ELSE LET off == i + 1
             IN  IF Len(script) - off + 1 < 0 - length
                 THEN [pops |-> <<>>, err |-> ErrMalformedPush]
                 ELSE LET l == littleEndian(script, off, 0 - length)
                          dataOff == off + (0 - length)
                      IN  IF l > Len(script) - dataOff + 1
                          THEN [pops |-> <<>>, err |-> ErrMalformedPush]
                          ELSE then([opcode |-> instr,
                                     data |-> SubSeq(script, dataOff, dataOff + l - 1),
                                     at |-> i], i + 1 - length + l)

\* parseScriptTemplate from index i (the first byte is script[1]): the
\* opcodes parsed up to the end or to the failure, and the error.  A parsed
\* opcode carries the index it was read at.
RECURSIVE parseScriptTemplate(_, _)
parseScriptTemplate(script, i) ==
    IF i > Len(script) THEN [pops |-> <<>>, err |-> NoError]
    ELSE
    LET instr == script[i]
        length == opcodeLength(instr)
        remaining == Len(script) - i + 1
        then(pop, next) ==
            LET rest == parseScriptTemplate(script, next)
            IN  [pops |-> <<pop>> \o rest.pops, err |-> rest.err]
    IN  IF length = 1
        THEN then([opcode |-> instr, data |-> <<>>, at |-> i], i + 1)
        ELSE IF length > 1
        THEN IF remaining < length
             THEN [pops |-> <<>>, err |-> ErrMalformedPush]
             ELSE then([opcode |-> instr,
                        data |-> SubSeq(script, i + 1, i + length - 1),
                        at |-> i], i + length)
        ELSE LET off == i + 1
             IN  IF Len(script) - off + 1 < 0 - length
                 THEN [pops |-> <<>>, err |-> ErrMalformedPush]
                 ELSE LET l == littleEndian(script, off, 0 - length)
                          dataOff == off + (0 - length)
                      IN  IF l > Len(script) - dataOff + 1
                          THEN [pops |-> <<>>, err |-> ErrMalformedPush]
                          ELSE then([opcode |-> instr,
                                     data |-> SubSeq(script, dataOff, dataOff + l - 1),
                                     at |-> i], i + 1 - length + l)

parseScript(script) == parseScriptTemplate(script, 1)

\* parsedOpcode.bytes: the opcode, the length prefix of a PUSHDATA and the
\* data.
popBytes(pop) ==
    LET length == opcodeLength(pop.opcode)
    IN  IF length >= 1 THEN <<pop.opcode>> \o pop.data
        ELSE <<pop.opcode>> \o putLittleEndian(Len(pop.data), 0 - length) \o pop.data

RECURSIVE unparseScript(_)
unparseScript(pops) ==
    IF pops = <<>> THEN <<>> ELSE popBytes(Head(pops)) \o unparseScript(Tail(pops))

\* The bytes of the scripts that are parsed: OP_0, OP_DATA_1, OP_DATA_2,
\* OP_PUSHDATA1, 2 and 4, OP_1 and OP_CHECKSIG.
ScriptBytes == {Op0, OpData1, 2, OpPushData1, OpPushData2, OpPushData4, Op1,
                OpCheckSig}

Scripts == UNION {[1..n -> ScriptBytes] : n \in 0..MaxScriptLen}

\* The bytes of the scripts whose signature operations are counted: OP_0,
\* OP_DATA_2, OP_DATA_3, OP_2 and the four signature-checking opcodes.
SigOpBytes == {Op0, 2, 3, Op1 + 1, OpCheckSig, OpCheckSigVerify,
               OpCheckMultiSig, OpCheckMultiSigVerify}

SigOpScripts == UNION {[1..n -> SigOpBytes] : n \in 0..MaxScriptLen}

\* parseScript followed by unparseScript of the opcodes it returned.
CallParseScript ==
    /\ utilCall = NoUtilCall
    /\ \E script \in Scripts :
         LET parsed == parseScript(script)
         IN  utilCall' = [op |-> "parseScript", script |-> script,
                          pops |-> parsed.pops, err |-> parsed.err,
                          unparsed |-> unparseScript(parsed.pops)]
    /\ UNCHANGED callerTx

\* isSmallInt: OP_0, or OP_1 through OP_16.
isSmallInt(op) == op = Op0 \/ (op >= Op1 /\ op <= Op16)

asSmallInt(op) == IF op = Op0 THEN 0 ELSE op - (Op1 - 1)

isScriptHash(pops) ==
    /\ Len(pops) = 3
    /\ pops[1].opcode = OpHash160
    /\ pops[2].opcode = OpData20
    /\ pops[3].opcode = OpEqual

isPushOnly(pops) == \A i \in DOMAIN pops : ~(pops[i].opcode > Op16)

\* A count that takes any small integer, OP_0 included, for the number of
\* public keys.
RECURSIVE getSigOpCountMutSmallInt(_, _, _)
getSigOpCountMutSmallInt(pops, precise, i) ==
    IF i > Len(pops) THEN 0
    ELSE LET value == pops[i].opcode
         IN  (IF value = OpCheckSig \/ value = OpCheckSigVerify THEN 1
              ELSE IF value = OpCheckMultiSig \/ value = OpCheckMultiSigVerify
              THEN IF precise /\ i > 1 /\ isSmallInt(pops[i - 1].opcode)
                   THEN asSmallInt(pops[i - 1].opcode)
                   ELSE MaxPubKeysPerMultiSig
              ELSE 0)
             + getSigOpCountMutSmallInt(pops, precise, i + 1)

\* getSigOpCount: the signature operations of pops[i], pops[i + 1], ...
RECURSIVE getSigOpCountFrom(_, _, _)
getSigOpCountFrom(pops, precise, i) ==
    IF i > Len(pops) THEN 0
    ELSE LET value == pops[i].opcode
         IN  (IF value = OpCheckSig \/ value = OpCheckSigVerify THEN 1
              ELSE IF value = OpCheckMultiSig \/ value = OpCheckMultiSigVerify
              THEN IF /\ precise /\ i > 1
                      /\ pops[i - 1].opcode >= Op1
                      /\ pops[i - 1].opcode <= Op16
                   THEN asSmallInt(pops[i - 1].opcode)
                   ELSE MaxPubKeysPerMultiSig
              ELSE 0)
             + getSigOpCountFrom(pops, precise, i + 1)

getSigOpCount(pops, precise) == getSigOpCountFrom(pops, precise, 1)

GetSigOpCount(script) == getSigOpCount(parseScript(script).pops, FALSE)

\* A count that gives 0 for a redeem script that fails to parse.
GetPreciseSigOpCountMutMalformedRedeem(scriptSig, scriptPubKey, isP2SH) ==
    LET pops == parseScript(scriptPubKey).pops
        sigParsed == parseScript(scriptSig)
        sigPops == sigParsed.pops
    IN  IF ~(isP2SH /\ isScriptHash(pops)) THEN getSigOpCount(pops, TRUE)
        ELSE IF sigParsed.err # NoError THEN 0
        ELSE IF ~isPushOnly(sigPops) \/ Len(sigPops) = 0 THEN 0
        ELSE LET shScript == sigPops[Len(sigPops)].data
             IN  IF Len(shScript) = 0 \/ parseScript(shScript).err # NoError THEN 0
                 ELSE getSigOpCount(parseScript(shScript).pops, TRUE)

GetPreciseSigOpCount(scriptSig, scriptPubKey, isP2SH) ==
    LET pops == parseScript(scriptPubKey).pops
        sigParsed == parseScript(scriptSig)
        sigPops == sigParsed.pops
    IN  IF ~(isP2SH /\ isScriptHash(pops)) THEN getSigOpCount(pops, TRUE)
        ELSE IF sigParsed.err # NoError THEN 0
        ELSE IF ~isPushOnly(sigPops) \/ Len(sigPops) = 0 THEN 0
        ELSE LET shScript == sigPops[Len(sigPops)].data
             IN  IF Len(shScript) = 0 THEN 0
                 ELSE getSigOpCount(parseScript(shScript).pops, TRUE)

\* The pay-to-script-hash script public key with the hash 0...0.
P2SHScript == <<OpHash160, OpData20>> \o [i \in 1..20 |-> 0] \o <<OpEqual>>

CallGetSigOpCount ==
    /\ utilCall = NoUtilCall
    /\ \E script \in SigOpScripts :
         utilCall' = [op |-> "GetSigOpCount", script |-> script,
                      count |-> GetSigOpCount(script)]
    /\ UNCHANGED callerTx

\* GetPreciseSigOpCount for a script public key that is any script and the
\* empty signature script.
CallGetPreciseSigOpCount ==
    /\ utilCall = NoUtilCall
    /\ \E scriptPubKey \in SigOpScripts, isP2SH \in BOOLEAN :
         utilCall' = [op |-> "GetPreciseSigOpCount", scriptSig |-> <<>>,
                      scriptPubKey |-> scriptPubKey, isP2SH |-> isP2SH,
                      count |-> GetPreciseSigOpCount(<<>>, scriptPubKey, isP2SH)]
    /\ UNCHANGED callerTx

\* GetPreciseSigOpCount for the pay-to-script-hash script public key and any
\* signature script.
CallGetPreciseSigOpCountP2SH ==
    /\ utilCall = NoUtilCall
    /\ \E scriptSig \in SigOpScripts, isP2SH \in BOOLEAN :
         utilCall' = [op |-> "GetPreciseSigOpCount", scriptSig |-> scriptSig,
                      scriptPubKey |-> P2SHScript, isP2SH |-> isP2SH,
                      count |-> GetPreciseSigOpCount(scriptSig, P2SHScript, isP2SH)]
    /\ UNCHANGED callerTx

NextScript ==
    \/ CallParseScript
          /\ UNCHANGED <<storeVars, dagVars, ibdVars, nodeVars, locVars, readVars, msVars>>
    \/ CallGetSigOpCount
          /\ UNCHANGED <<storeVars, dagVars, ibdVars, nodeVars, locVars, readVars, msVars>>
    \/ CallGetPreciseSigOpCount
          /\ UNCHANGED <<storeVars, dagVars, ibdVars, nodeVars, locVars, readVars, msVars>>
    \/ CallGetPreciseSigOpCountP2SH
          /\ UNCHANGED <<storeVars, dagVars, ibdVars, nodeVars, locVars, readVars, msVars>>

InitScriptAlone ==
    /\ IdleStore /\ IdleDag /\ IdleIBD /\ IdleNodes /\ IdleLocator
    /\ IdleReaders /\ IdleMultiset
    /\ utilCall = NoUtilCall
    /\ callerTx = <<>>

SpecScript == InitScriptAlone /\ [][NextScript]_vars

\* The indices of the opcodes that are one of two values.
IndicesOf(pops, a, b) == {i \in DOMAIN pops : pops[i].opcode = a \/ pops[i].opcode = b}

MultiSigs(pops) == IndicesOf(pops, OpCheckMultiSig, OpCheckMultiSigVerify)

\* The sum of v times the number of multisig opcodes right after the
\* opcode of the integer v, for v from low to 16.
RECURSIVE SumPreceded(_, _)
SumPreceded(pops, v) ==
    IF v > 16 THEN 0
    ELSE v * Cardinality({i \in MultiSigs(pops) :
                              i > 1 /\ pops[i - 1].opcode = Op1 + v - 1})
         + SumPreceded(pops, v + 1)

\* The count with the opcodes in smallInts taken for a number of keys.
CountWith(pops, precise, smallInts) ==
    Cardinality(IndicesOf(pops, OpCheckSig, OpCheckSigVerify))
    + (IF precise
       THEN SumPreceded(pops, 1)
            + MaxPubKeysPerMultiSig
              * Cardinality({i \in MultiSigs(pops) :
                                i = 1 \/ pops[i - 1].opcode \notin smallInts})
       ELSE MaxPubKeysPerMultiSig * Cardinality(MultiSigs(pops)))

\* A call that counts the script itself, and whether it counts precisely.
CountsScript == utilCall.op = "GetSigOpCount"
                \/ (utilCall.op = "GetPreciseSigOpCount"
                    /\ utilCall.scriptPubKey # P2SHScript)

CountedPops == IF utilCall.op = "GetSigOpCount"
               THEN parseScript(utilCall.script).pops
               ELSE parseScript(utilCall.scriptPubKey).pops

\* C27 as stated: CHECKSIG and CHECKSIGVERIFY count 1; CHECKMULTISIG and
\* CHECKMULTISIGVERIFY count, in precise mode, the value of the small
\* integer opcode right before (OP_0 or OP_1..OP_16), and 20 otherwise.
C27_CountsPrecedingSmallInt ==
    CountsScript =>
        utilCall.count = CountWith(CountedPops, utilCall.op = "GetPreciseSigOpCount",
                                   {Op0} \cup (Op1..Op16))

\* C27 amended: CHECKSIG and CHECKSIGVERIFY count 1; CHECKMULTISIG and
\* CHECKMULTISIGVERIFY count, in precise mode, the value of the opcode
\* OP_1..OP_16 right before, and 20 in non-precise mode or when no
\* OP_1..OP_16 is right before (OP_0 is not taken for a number of keys);
\* every other opcode counts 0.
C27_CountsPrecedingOp1ToOp16 ==
    CountsScript =>
        utilCall.count = CountWith(CountedPops, utilCall.op = "GetPreciseSigOpCount",
                                   Op1..Op16)

\* A precise count of a script with a multisig after OP_0 and another
\* after OP_2.
C27_Witness ==
    /\ utilCall.op = "GetPreciseSigOpCount"
    /\ utilCall.scriptPubKey # P2SHScript
    /\ \E i, j \in MultiSigs(CountedPops) :
          /\ i > 1 /\ CountedPops[i - 1].opcode = Op0
          /\ j > 1 /\ CountedPops[j - 1].opcode = Op1 + 1
    /\ utilCall.count = MaxPubKeysPerMultiSig + 2

P2SHCall == /\ utilCall.op = "GetPreciseSigOpCount"
            /\ utilCall.isP2SH
            /\ utilCall.scriptPubKey = P2SHScript

\* The redeem script: the data of the last opcode of the signature script.
RedeemScript ==
    LET sigPops == parseScript(utilCall.scriptSig).pops
    IN  IF sigPops = <<>> THEN <<>> ELSE sigPops[Len(sigPops)].data

SigScriptRejected ==
    LET sigParsed == parseScript(utilCall.scriptSig)
    IN  \/ sigParsed.err # NoError
        \/ \E i \in DOMAIN sigParsed.pops : sigParsed.pops[i].opcode > Op16
        \/ utilCall.scriptSig = <<>>

\* C28 as stated: for a P2SH input the count is the precise count of the
\* redeem script, and 0 when the signature script or the redeem script
\* fails to parse, or the signature script is not push-only or is empty.
C28_MalformedCountsZero ==
    P2SHCall =>
        utilCall.count =
            IF SigScriptRejected \/ parseScript(RedeemScript).err # NoError
            THEN 0
            ELSE CountWith(parseScript(RedeemScript).pops, TRUE, Op1..Op16)

\* C28 amended: for a P2SH input the count is 0 when the signature script
\* fails to parse, is not push-only or is empty; otherwise it is the
\* precise count of the redeem script, up to its first parse failure when
\* the redeem script is malformed.
C28_MalformedRedeemCountsUpToFailure ==
    P2SHCall =>
        utilCall.count =
            IF SigScriptRejected THEN 0
            ELSE CountWith(parseScript(RedeemScript).pops, TRUE, Op1..Op16)

\* A P2SH count of a redeem script that fails to parse after an opcode
\* that counts.
C28_Witness ==
    /\ P2SHCall
    /\ ~SigScriptRejected
    /\ parseScript(RedeemScript).err = ErrMalformedPush
    /\ utilCall.count > 0

\* The bytes the instruction at index i needs, itself included: 1, n + 1
\* for OP_DATA_n, and for OP_PUSHDATA the prefix and, if the prefix is there,
\* the data it announces.
BytesNeeded(script, i) ==
    LET length == opcodeLength(script[i])
    IN  IF length >= 1 THEN length
        ELSE IF i + (0 - length) > Len(script) THEN 1 + (0 - length)
        ELSE 1 + (0 - length) + littleEndian(script, i + 1, 0 - length)

\* Some instruction, reading from index i, needs more bytes than remain.
RECURSIVE Overruns(_, _)
Overruns(script, i) ==
    /\ i <= Len(script)
    /\ \/ BytesNeeded(script, i) > Len(script) - i + 1
       \/ Overruns(script, i + BytesNeeded(script, i))

\* C29: parseScript fails with ErrMalformedPush exactly when some push needs
\* more bytes than remain; otherwise the parsed opcodes cover the script
\* contiguously and unparseScript gives the script back byte for byte.
C29_ParseFailsExactlyOnOverrun ==
    utilCall.op = "parseScript" =>
        LET script == utilCall.script
            pops == utilCall.pops
            end(n) == pops[n].at + Len(popBytes(pops[n]))
        IN  /\ utilCall.err \in {NoError, ErrMalformedPush}
            /\ utilCall.err = ErrMalformedPush <=> Overruns(script, 1)
            /\ utilCall.err = NoError =>
                  /\ pops = <<>> <=> script = <<>>
                  /\ pops # <<>> => pops[1].at = 1 /\ end(Len(pops)) = Len(script) + 1
                  /\ \A n \in 1..(Len(pops) - 1) : pops[n + 1].at = end(n)
                  /\ \A n \in DOMAIN pops :
                        SubSeq(script, pops[n].at, end(n) - 1) = popBytes(pops[n])
                  /\ utilCall.unparsed = script

\* A script that parses into an OP_PUSHDATA1 with data, an OP_DATA push
\* and a plain opcode.
C29_Witness ==
    /\ utilCall.op = "parseScript"
    /\ utilCall.err = NoError
    /\ Len(utilCall.pops) >= 2
    /\ \E n \in DOMAIN utilCall.pops :
          utilCall.pops[n].opcode = OpPushData1 /\ utilCall.pops[n].data # <<>>
    /\ \E n \in DOMAIN utilCall.pops : utilCall.pops[n].opcode = OpCheckSig
    /\ utilCall.unparsed = utilCall.script

(***************************************************************************)
(* Signature hashes.  A transaction output holds a pointer to its script   *)
(* public key: callerTx.spks is the memory of the script public keys, and  *)
(* an output's ScriptPublicKey is a reference into it, which two outputs   *)
(* may share.  Inputs and outputs are numbered from 0 as in the code, and  *)
(* are at index + 1 of their sequences.                                    *)
(***************************************************************************)

MaxInputs == 3

MaxOutputs == 2

SigHashNone == 2
SigHashSingle == 3
SigHashAnyOneCanPay == 128
sigHashMask == 31

MaxScriptPublicKeyVersion == 0

ErrInvalidSigHashSingleIndex == "ErrInvalidSigHashSingleIndex"

NoHash == <<>>

\* hashType & sigHashMask, the mask being 2^5 - 1.
Masked(hashType) == hashType % (sigHashMask + 1)

\* hashType & SigHashAnyOneCanPay != 0.
AnyOneCanPay(hashType) == (hashType \div SigHashAnyOneCanPay) % 2 = 1

\* A test of the hash type without the mask.
sigHashSingleOutOfBoundsMutNoMask(hashType, tx, idx) ==
    hashType = SigHashSingle /\ idx >= Len(tx.Outputs)

\* The guard of calcSignatureHash.
sigHashSingleOutOfBounds(hashType, tx, idx) ==
    Masked(hashType) = SigHashSingle /\ idx >= Len(tx.Outputs)

\* The outputs with their script public keys read from memory.
WithScriptPublicKeys(outputs, spks) ==
    [i \in DOMAIN outputs |->
        [Value |-> outputs[i].Value,
         ScriptPublicKey |-> spks[outputs[i].ScriptPublicKey]]]

\* calcSignatureHash on the caller's transaction and memory: the error, the
\* hash (the transaction that is serialized and the hash type), the memory
\* afterwards, and whether a slice expression went out of range.
calcSignatureHash(prevScriptPublicKey, scriptVersion, hashType, caller, idx) ==
    LET tx == caller.tx
        failed(err, panicked) == [err |-> err, hash |-> NoHash,
                                  spks |-> caller.spks, panicked |-> panicked]
        \* shallowCopyTx and the loop over the copy's inputs
        signed == [i \in DOMAIN tx.Inputs |->
                     [tx.Inputs[i] EXCEPT !.SignatureScript =
                        IF i = idx + 1
                        THEN putLittleEndian(scriptVersion, 2)
                             \o unparseScript(prevScriptPublicKey)
                        ELSE <<>>]]
        others == [i \in DOMAIN signed |->
                     IF i # idx + 1 THEN [signed[i] EXCEPT !.Sequence = 0]
                     ELSE signed[i]]
        inputs == IF Masked(hashType) \in {SigHashNone, SigHashSingle}
                  THEN others ELSE signed
        outputs == IF Masked(hashType) = SigHashNone THEN <<>>
                   ELSE IF Masked(hashType) = SigHashSingle
                   THEN [i \in 1..(idx + 1) |->
                           IF i <= idx THEN [tx.Outputs[i] EXCEPT !.Value = 0]
                           ELSE tx.Outputs[i]]
                   ELSE tx.Outputs
        \* the writes through the outputs' ScriptPublicKey pointers
        spks == IF Masked(hashType) = SigHashSingle
                THEN [r \in DOMAIN caller.spks |->
                        IF \E i \in 1..idx : tx.Outputs[i].ScriptPublicKey = r
                        THEN [Script |-> <<>>, Version |-> 0]
                        ELSE caller.spks[r]]
                ELSE caller.spks
    IN  IF sigHashSingleOutOfBounds(hashType, tx, idx)
        THEN failed(ErrInvalidSigHashSingleIndex, FALSE)
        ELSE IF Masked(hashType) = SigHashSingle /\ idx + 1 > Len(tx.Outputs)
        THEN failed(NoError, TRUE)
        ELSE IF AnyOneCanPay(hashType) /\ idx + 1 > Len(tx.Inputs)
        THEN [failed(NoError, TRUE) EXCEPT !.spks = spks]
        ELSE [err |-> NoError,
              hash |-> [tx |-> [Inputs |-> IF AnyOneCanPay(hashType)
                                          THEN <<inputs[idx + 1]>> ELSE inputs,
                                Outputs |-> WithScriptPublicKeys(outputs, spks),
                                Payload |-> <<>>],
                        hashType |-> hashType],
              spks |-> spks,
              panicked |-> FALSE]

CalcSignatureHash(script, hashType, caller, idx) ==
    IF script.Version > MaxScriptPublicKeyVersion
    THEN [err |-> "Script version is unkown.", hash |-> NoHash,
          spks |-> caller.spks, panicked |-> FALSE]
    ELSE IF parseScript(script.Script).err # NoError
    THEN [err |-> "cannot parse output script", hash |-> NoHash,
          spks |-> caller.spks, panicked |-> FALSE]
    ELSE calcSignatureHash(parseScript(script.Script).pops, script.Version,
                           hashType, caller, idx)

\* The transactions of a caller: up to MaxInputs inputs, up to MaxOutputs
\* outputs, each with a script public key of its own or that of an earlier
\* output, with or without a payload.
CallerTxs ==
    {[tx |-> [Inputs |-> [i \in 1..nIn |->
                            [SignatureScript |-> <<Op1>>, Sequence |-> i]],
              Outputs |-> [i \in 1..nOut |->
                            [Value |-> i, ScriptPublicKey |-> refs[i]]],
              Payload |-> payload],
      spks |-> [r \in 1..nOut |-> [Script |-> <<Op1 + r, OpCheckSig>>,
                                   Version |-> 0]]] :
        <<nIn, nOut, refs, payload>> \in
            {q \in (1..MaxInputs) \X (0..MaxOutputs)
                   \X (UNION {[1..n -> 1..MaxOutputs] : n \in 0..MaxOutputs})
                   \X {<<>>, <<1>>} :
                /\ DOMAIN q[3] = 1..q[2]
                /\ \A i \in DOMAIN q[3] : q[3][i] <= i}}

\* The script public keys being spent: one that parses, one with a push that
\* overruns, one of an unknown version.
PrevScripts == {[Script |-> <<OpData1, 7, OpCheckSig>>, Version |-> 0],
                [Script |-> <<OpCheckSig, OpData1>>, Version |-> 0],
                [Script |-> <<OpCheckSig>>, Version |-> 1]}

\* Old, All, None, Single, an undefined type, Single with a bit above the
\* mask, and the first four with AnyOneCanPay.
HashTypes == {0, 1, 2, 3, 4, 35, 128, 129, 130, 131}

\* A call of CalcSignatureHash for an input of the caller's transaction.
CallCalcSignatureHash ==
    /\ \E script \in PrevScripts, hashType \in HashTypes,
          idx \in 0..(Len(callerTx.tx.Inputs) - 1) :
         LET ret == CalcSignatureHash(script, hashType, callerTx, idx)
         IN  /\ utilCall' = [op |-> "CalcSignatureHash", script |-> script,
                             hashType |-> hashType, before |-> callerTx,
                             idx |-> idx, err |-> ret.err, hash |-> ret.hash,
                             panicked |-> ret.panicked]
             /\ callerTx' = [callerTx EXCEPT !.spks = ret.spks]

NextSigHash ==
    \/ CallCalcSignatureHash
          /\ UNCHANGED <<storeVars, dagVars, ibdVars, nodeVars, locVars, readVars, msVars>>

InitSigHashAlone ==
    /\ IdleStore /\ IdleDag /\ IdleIBD /\ IdleNodes /\ IdleLocator
    /\ IdleReaders /\ IdleMultiset
    /\ utilCall = NoUtilCall
    /\ callerTx \in CallerTxs

SpecSigHash == InitSigHashAlone /\ [][NextSigHash]_vars

SigHashCall == utilCall.op = "CalcSignatureHash"

\* The call got past the checks of the script public key.
ScriptAccepted ==
    /\ utilCall.script.Version <= MaxScriptPublicKeyVersion
    /\ parseScript(utilCall.script.Script).err = NoError

C25_LeavesCallerTxUnchanged ==
    [][/\ callerTx' = callerTx
       /\ (/\ SigHashCall
           /\ utilCall'.script = utilCall.script
           /\ utilCall'.hashType = utilCall.hashType
           /\ utilCall'.idx = utilCall.idx)
          => utilCall'.hash = utilCall.hash /\ utilCall'.err = utilCall.err]_vars

\* The transaction the claim has hashed, from the caller's transaction with
\* its script public keys read from memory.
ReferenceTransform(caller, script, hashType, idx) ==
    LET mask == hashType % 32
        inputs == [i \in DOMAIN caller.tx.Inputs |->
                     [SignatureScript |->
                          IF i = idx + 1
                          THEN <<script.Version % 256, script.Version \div 256>>
                               \o script.Script
                          ELSE <<>>,
                      Sequence |->
                          IF mask \in {2, 3} /\ i # idx + 1 THEN 0
                          ELSE caller.tx.Inputs[i].Sequence]]
        outputs == WithScriptPublicKeys(caller.tx.Outputs, caller.spks)
    IN  [Inputs |-> IF hashType \div 128 % 2 = 1 THEN <<inputs[idx + 1]>>
                    ELSE inputs,
         Outputs |-> IF mask = 2 THEN <<>>
                     ELSE IF mask = 3
                     THEN [i \in 1..(idx + 1) |->
                             IF i <= idx
                             THEN [Value |-> 0,
                                   ScriptPublicKey |-> [Script |-> <<>>, Version |-> 0]]
                             ELSE outputs[i]]
                     ELSE outputs,
         Payload |-> <<>>]

\* C26: for every hash type the transaction that is hashed is the reference
\* transform of the caller's transaction, hashed with the hash type.
C26_HashesReferenceTransform ==
    SigHashCall /\ utilCall.err = NoError =>
        /\ ~utilCall.panicked
        /\ utilCall.hash =
              [tx |-> ReferenceTransform(utilCall.before, utilCall.script,
                                         utilCall.hashType, utilCall.idx),
               hashType |-> utilCall.hashType]

\* C26 for transactions whose outputs share no script public key.
C26_Unshared ==
    SigHashCall /\
    (\A i, j \in DOMAIN utilCall.before.tx.Outputs :
        i # j => utilCall.before.tx.Outputs[i].ScriptPublicKey
                 # utilCall.before.tx.Outputs[j].ScriptPublicKey)
    => C26_HashesReferenceTransform

(***************************************************************************)
(* Block windows.  TestBlockWindow builds one DAG of 15 blocks on every    *)
(* network, with k = 1 and a window of 10, and compares the sorted window  *)
(* of every block with the expected one.  The networks differ by the       *)
(* hashes of the blocks only.                                              *)
(***************************************************************************)

MaxWindowSize == 2

windowSize == 10

\* An entry of the test's table.
W(parents, id, expectedWindowWithGenesisPadding) ==
    [parents |-> parents, id |-> id,
     expectedWindowWithGenesisPadding |-> expectedWindowWithGenesisPadding]

\* The mainnet table with the window of I having D before C.
mainnetBlocksMutTieOrder == <<
    W({"A"}, "B",
      <<"A", "A", "A", "A", "A", "A", "A", "A", "A", "A">>),
    W({"B"}, "C",
      <<"B", "A", "A", "A", "A", "A", "A", "A", "A", "A">>),
    W({"B"}, "D",
      <<"B", "A", "A", "A", "A", "A", "A", "A", "A", "A">>),
    W({"C","D"}, "E",
      <<"C", "D", "B", "A", "A", "A", "A", "A", "A", "A">>),
    W({"C","D"}, "F",
      <<"C", "D", "B", "A", "A", "A", "A", "A", "A", "A">>),
    W({"A"}, "G",
      <<"A", "A", "A", "A", "A", "A", "A", "A", "A", "A">>),
    W({"G"}, "H",
      <<"G", "A", "A", "A", "A", "A", "A", "A", "A", "A">>),
    W({"H","F"}, "I",
      <<"F", "D", "C", "H", "G", "B", "A", "A", "A", "A">>),
    W({"I"}, "J",
      <<"I", "F", "C", "D", "H", "G", "B", "A", "A", "A">>),
    W({"J"}, "K",
      <<"J", "I", "F", "C", "D", "H", "G", "B", "A", "A">>),
    W({"K"}, "L",
      <<"K", "J", "I", "F", "C", "D", "H", "G", "B", "A">>),
    W({"L"}, "M",
      <<"L", "K", "J", "I", "F", "C", "D", "H", "G", "B">>),
    W({"M"}, "N",
      <<"M", "L", "K", "J", "I", "F", "C", "D", "H", "G">>),
    W({"N"}, "O",
      <<"N", "M", "L", "K", "J", "I", "F", "C", "D", "H">>) >>

mainnetBlocks == <<
    W({"A"}, "B",
      <<"A", "A", "A", "A", "A", "A", "A", "A", "A", "A">>),
    W({"B"}, "C",
      <<"B", "A", "A", "A", "A", "A", "A", "A", "A", "A">>),
    W({"B"}, "D",
      <<"B", "A", "A", "A", "A", "A", "A", "A", "A", "A">>),
    W({"C","D"}, "E",
      <<"C", "D", "B", "A", "A", "A", "A", "A", "A", "A">>),
    W({"C","D"}, "F",
      <<"C", "D", "B", "A", "A", "A", "A", "A", "A", "A">>),
    W({"A"}, "G",
      <<"A", "A", "A", "A", "A", "A", "A", "A", "A", "A">>),
    W({"G"}, "H",
      <<"G", "A", "A", "A", "A", "A", "A", "A", "A", "A">>),
    W({"H","F"}, "I",
      <<"F", "C", "D", "H", "G", "B", "A", "A", "A", "A">>),
    W({"I"}, "J",
      <<"I", "F", "C", "D", "H", "G", "B", "A", "A", "A">>),
    W({"J"}, "K",
      <<"J", "I", "F", "C", "D", "H", "G", "B", "A", "A">>),
    W({"K"}, "L",
      <<"K", "J", "I", "F", "C", "D", "H", "G", "B", "A">>),
    W({"L"}, "M",
      <<"L", "K", "J", "I", "F", "C", "D", "H", "G", "B">>),
    W({"M"}, "N",
      <<"M", "L", "K", "J", "I", "F", "C", "D", "H", "G">>),
    W({"N"}, "O",
      <<"N", "M", "L", "K", "J", "I", "F", "C", "D", "H">>) >>

testnetBlocks == <<
    W({"A"}, "B",
      <<"A", "A", "A", "A", "A", "A", "A", "A", "A", "A">>),
    W({"B"}, "C",
      <<"B", "A", "A", "A", "A", "A", "A", "A", "A", "A">>),
    W({"B"}, "D",
      <<"B", "A", "A", "A", "A", "A", "A", "A", "A", "A">>),
    W({"C","D"}, "E",
      <<"C", "D", "B", "A", "A", "A", "A", "A", "A", "A">>),
    W({"C","D"}, "F",
      <<"C", "D", "B", "A", "A", "A", "A", "A", "A", "A">>),
    W({"A"}, "G",
      <<"A", "A", "A", "A", "A", "A", "A", "A", "A", "A">>),
    W({"G"}, "H",
      <<"G", "A", "A", "A", "A", "A", "A", "A", "A", "A">>),
    W({"H","F"}, "I",
      <<"F", "C", "H", "D", "G", "B", "A", "A", "A", "A">>),
    W({"I"}, "J",
      <<"I", "F", "C", "H", "D", "G", "B", "A", "A", "A">>),
    W({"J"}, "K",
      <<"J", "I", "F", "C", "H", "D", "G", "B", "A", "A">>),
    W({"K"}, "L",
      <<"K", "J", "I", "F", "C", "H", "D", "G", "B", "A">>),
    W({"L"}, "M",
      <<"L", "K", "J", "I", "F", "C", "H", "D", "G", "B">>),
    W({"M"}, "N",
      <<"M", "L", "K", "J", "I", "F", "C", "H", "D", "G">>),
    W({"N"}, "O",
      <<"N", "M", "L", "K", "J", "I", "F", "C", "H", "D">>) >>

devnetBlocks == <<
    W({"A"}, "B",
      <<"A", "A", "A", "A", "A", "A", "A", "A", "A", "A">>),
    W({"B"}, "C",
      <<"B", "A", "A", "A", "A", "A", "A", "A", "A", "A">>),
    W({"B"}, "D",
      <<"B", "A", "A", "A", "A", "A", "A", "A", "A", "A">>),
    W({"C","D"}, "E",
      <<"C", "D", "B", "A", "A", "A", "A", "A", "A", "A">>),
    W({"C","D"}, "F",
      <<"C", "D", "B", "A", "A", "A", "A", "A", "A", "A">>),
    W({"A"}, "G",
      <<"A", "A", "A", "A", "A", "A", "A", "A", "A", "A">>),
    W({"G"}, "H",
      <<"G", "A", "A", "A", "A", "A", "A", "A", "A", "A">>),
    W({"H","F"}, "I",
      <<"F", "H", "C", "D", "B", "G", "A", "A", "A", "A">>),
    W({"I"}, "J",
      <<"I", "F", "H", "C", "D", "B", "G", "A", "A", "A">>),
    W({"J"}, "K",
      <<"J", "I", "F", "H", "C", "D", "B", "G", "A", "A">>),
    W({"K"}, "L",
      <<"K", "J", "I", "F", "H", "C", "D", "B", "G", "A">>),
    W({"L"}, "M",
      <<"L", "K", "J", "I", "F", "H", "C", "D", "B", "G">>),
    W({"M"}, "N",
      <<"M", "L", "K", "J", "I", "F", "H", "C", "D", "B">>),
    W({"N"}, "O",
      <<"N", "M", "L", "K", "J", "I", "F", "H", "C", "D">>) >>

simnetBlocks == <<
    W({"A"}, "B",
      <<"A", "A", "A", "A", "A", "A", "A", "A", "A", "A">>),
    W({"B"}, "C",
      <<"B", "A", "A", "A", "A", "A", "A", "A", "A", "A">>),
    W({"B"}, "D",
      <<"B", "A", "A", "A", "A", "A", "A", "A", "A", "A">>),
    W({"D","C"}, "E",
      <<"D", "C", "B", "A", "A", "A", "A", "A", "A", "A">>),
    W({"D","C"}, "F",
      <<"D", "C", "B", "A", "A", "A", "A", "A", "A", "A">>),
    W({"A"}, "G",
      <<"A", "A", "A", "A", "A", "A", "A", "A", "A", "A">>),
    W({"G"}, "H",
      <<"G", "A", "A", "A", "A", "A", "A", "A", "A", "A">>),
    W({"H","F"}, "I",
      <<"F", "D", "H", "C", "B", "G", "A", "A", "A", "A">>),
    W({"I"}, "J",
      <<"I", "F", "D", "H", "C", "B", "G", "A", "A", "A">>),
    W({"J"}, "K",
      <<"J", "I", "F", "D", "H", "C", "B", "G", "A", "A">>),
    W({"K"}, "L",
      <<"K", "J", "I", "F", "D", "H", "C", "B", "G", "A">>),
    W({"L"}, "M",
      <<"L", "K", "J", "I", "F", "D", "H", "C", "B", "G">>),
    W({"M"}, "N",
      <<"M", "L", "K", "J", "I", "F", "D", "H", "C", "B">>),
    W({"N"}, "O",
      <<"N", "M", "L", "K", "J", "I", "F", "D", "H", "C">>) >>

Nets == {"mainnet", "testnet", "devnet", "simnet"}

tests == [network \in Nets |->
            IF network = "mainnet" THEN mainnetBlocks
            ELSE IF network = "testnet" THEN testnetBlocks
            ELSE IF network = "devnet" THEN devnetBlocks
            ELSE simnetBlocks]

\* blockByIDMap: the hashes of the test's blocks on a network, genesis
\* being A.  The blocks of equal blue score, B and G, and C, D and H, have
\* their hashes in the order of the network.
blockByIDMap(network) ==
    LET tied == IF network = "mainnet" THEN <<"G", "B", "C", "D", "H">>
                ELSE IF network = "testnet" THEN <<"G", "B", "C", "H", "D">>
                ELSE IF network = "devnet" THEN <<"B", "G", "H", "C", "D">>
                ELSE <<"B", "G", "D", "H", "C">>
        others == <<"E", "F", "I", "J", "K", "L", "M", "N", "O">>
    IN  [id \in {"A"} \cup Range(tied) \cup Range(others) |->
            IF id = "A" THEN genesisHash
            ELSE IF id \in Range(tied)
            THEN CHOOSE i \in DOMAIN tied : tied[i] = id
            ELSE Len(tied) + (CHOOSE i \in DOMAIN others : others[i] = id)]

\* The order of a window: the higher blue score first, and of two blocks
\* of one blue score the lower hash.
windowBefore(a, b, dm) ==
    \/ dm[a].blueScore > dm[b].blueScore
    \/ dm[a].blueScore = dm[b].blueScore /\ a < b

\* The first n blocks of a set in the order of a window.
RECURSIVE firstOfWindow(_, _, _)
firstOfWindow(blocks, n, dm) ==
    IF n = 0 \/ blocks = {} THEN <<>>
    ELSE LET first == CHOOSE x \in blocks :
                        \A y \in blocks \ {x} : windowBefore(x, y, dm)
         IN  <<first>> \o firstOfWindow(blocks \ {first}, n - 1, dm)

\* A window that is not padded.
BlockWindowMutNoPadding(highHash, size, pm, dm) ==
    firstOfWindow(PastOf(highHash, pm), size, dm)

\* DAGTraversalManager.BlockWindow: the size blocks of the past of highHash
\* with the highest blue scores, padded with genesis.
BlockWindow(highHash, size, pm, dm) ==
    LET window == firstOfWindow(PastOf(highHash, pm), size, dm)
    IN  window \o [i \in 1..(size - Len(window)) |-> genesisHash]

NoNet == "none"

\* The consensus of the test on a network, or a consensus to which any
\* blocks are added, with k = 1 and genesis alone.
InitWindow ==
    /\ parentsMap = [h \in {genesisHash} |-> {}]
    /\ dagMap = [h \in {genesisHash} |-> GenesisData]
    /\ k = 1
    /\ testNum = 0
    /\ callerTx = <<>>
    /\ \E network \in Nets \cup {NoNet} :
         \E size \in IF network = NoNet THEN 1..MaxWindowSize ELSE {windowSize} :
            utilCall = [op |-> "BlockWindow", net |-> network, size |-> size,
                        block |-> genesisHash,
                        window |-> BlockWindow(genesisHash, size, parentsMap, dagMap),
                        expected |-> <<>>]

\* AddBlock and BlockWindow of the new block, for any block.
AddBlockAndWindow ==
    /\ utilCall.net = NoNet
    /\ \E blockHash \in BlockHashes :
         \E parents \in SUBSET (DOMAIN parentsMap) :
            /\ AddBlock(blockHash, parents)
            /\ utilCall' = [utilCall EXCEPT
                    !.block = blockHash,
                    !.window = BlockWindow(blockHash, utilCall.size,
                                           parentsMap', dagMap')]
    /\ UNCHANGED callerTx

\* The body of the test's loop for the next entry of the network's table:
\* AddBlock, BlockWindow, and the expected window as hashes.
TestBlockWindowStep ==
    /\ utilCall.net \in Nets
    /\ LET blocksData == tests[utilCall.net]
           done == Cardinality(DOMAIN parentsMap) - 1
           ids == blockByIDMap(utilCall.net)
       IN  /\ done < Len(blocksData)
           /\ LET blockData == blocksData[done + 1]
                  block == ids[blockData.id]
              IN  /\ AddBlock(block, {ids[p] : p \in blockData.parents})
                  /\ utilCall' = [utilCall EXCEPT
                        !.block = block,
                        !.window = BlockWindow(block, windowSize,
                                               parentsMap', dagMap'),
                        !.expected =
                            [i \in DOMAIN blockData.expectedWindowWithGenesisPadding |->
                                ids[blockData.expectedWindowWithGenesisPadding[i]]]]
    /\ UNCHANGED callerTx

NextWindow ==
    \/ AddBlockAndWindow /\ UNCHANGED <<storeVars, ibdVars, nodeVars, locVars, readVars, msVars>>
    \/ TestBlockWindowStep /\ UNCHANGED <<storeVars, ibdVars, nodeVars, locVars, readVars, msVars>>

InitWindowAlone ==
    InitWindow /\ IdleStore /\ IdleIBD /\ IdleNodes /\ IdleLocator
    /\ IdleReaders /\ IdleMultiset

SpecWindow == InitWindowAlone /\ [][NextWindow]_vars

WindowCall == utilCall.op = "BlockWindow"

SyncerBlockCount == [BlockCount |-> net.tip - net.pp + 1,
                     HeaderCount |-> net.tip + 1]

\* GetBlockCount of the syncee: the headers and bodies it holds of the
\* syncer's chain, and its own blocks.
SynceeBlockCount == [BlockCount |-> Cardinality(bods) + net.own,
                     HeaderCount |-> hdrs + 1 + net.own]

\* The syncee of TestIBDWithPruning has finished IBD: before it connected
\* it held genesis and its own blocks only, and the syncer has pruned.
C31_Case ==
    /\ ibdState = "Idle"
    /\ session.ended = "completed"
    /\ net.shared = 0
    /\ SyncerBlockCount.BlockCount < SyncerBlockCount.HeaderCount

ReaderIds == 1..MaxReaders

\* A reader outside the call.
IdleReader == [pc |-> "idle", selectedTipBytes |-> Absent, selectedTip |-> Nil,
               ret |-> Nil, err |-> FALSE]

\* New() over a byte store that holds no selected tip or a committed one:
\* staging and cache are empty, no reader runs.
InitReaders ==
    /\ staging = Nil
    /\ cache = Nil
    /\ \E h \in Hashes \cup {Nil} :
         dbVal = [key \in Keys |->
                    IF key = headerSelectedTipKey /\ h # Nil
                    THEN serializeHeadersSelectedTip(h) ELSE Absent]
    /\ txOpen = FALSE
    /\ txVal = NoPuts
    /\ last = NoCall
    /\ preStage = NoSnapshot
    /\ sinceCommit = Nil
    /\ readers = [r \in ReaderIds |-> IdleReader]

\* The reader takes the read lock and enters HeadersSelectedTip.
ReaderLock ==
    \E r \in ReaderIds :
        /\ readers[r].pc = "idle"
        /\ readers' = [readers EXCEPT ![r] = [IdleReader EXCEPT !.pc = "staging"]]
        /\ UNCHANGED storeVars

\* if hts.staging != nil { return hts.staging, nil }
ReaderTestStaging ==
    \E r \in ReaderIds :
        /\ readers[r].pc = "staging"
        /\ readers' = [readers EXCEPT ![r] =
                         IF staging # Nil
                         THEN [@ EXCEPT !.pc = "unlock", !.ret = staging]
                         ELSE [@ EXCEPT !.pc = "cache"]]
        /\ UNCHANGED storeVars

\* if hts.cache != nil { return hts.cache, nil }
ReaderTestCache ==
    \E r \in ReaderIds :
        /\ readers[r].pc = "cache"
        /\ readers' = [readers EXCEPT ![r] =
                         IF cache # Nil
                         THEN [@ EXCEPT !.pc = "unlock", !.ret = cache]
                         ELSE [@ EXCEPT !.pc = "get"]]
        /\ UNCHANGED storeVars

\* selectedTipBytes, err := dbContext.Get(headerSelectedTipKey)
ReaderGet ==
    \E r \in ReaderIds :
        /\ readers[r].pc = "get"
        /\ readers' = [readers EXCEPT ![r] =
                         IF dbVal[headerSelectedTipKey] = Absent
                         THEN [@ EXCEPT !.pc = "unlock", !.err = TRUE]
                         ELSE [@ EXCEPT !.pc = "deserialize",
                                        !.selectedTipBytes =
                                            dbVal[headerSelectedTipKey]]]
        /\ UNCHANGED storeVars

\* selectedTip, err := hts.deserializeHeadersSelectedTip(selectedTipBytes)
ReaderDeserialize ==
    \E r \in ReaderIds :
        /\ readers[r].pc = "deserialize"
        /\ LET d == deserializeHeadersSelectedTip(readers[r].selectedTipBytes)
           IN  readers' = [readers EXCEPT ![r] =
                             IF ~d.ok
                             THEN [@ EXCEPT !.pc = "unlock", !.err = TRUE]
                             ELSE [@ EXCEPT !.pc = "write",
                                            !.selectedTip = d.hash]]
        /\ UNCHANGED storeVars

\* hts.cache = selectedTip
ReaderWriteCache ==
    \E r \in ReaderIds :
        /\ readers[r].pc = "write"
        /\ cache' = readers[r].selectedTip
        /\ readers' = [readers EXCEPT ![r] = [@ EXCEPT !.pc = "return"]]
        /\ UNCHANGED <<staging, dbVal, txOpen, txVal, last, preStage,
                       sinceCommit>>

\* return hts.cache, nil
ReaderReturn ==
    \E r \in ReaderIds :
        /\ readers[r].pc = "return"
        /\ readers' = [readers EXCEPT ![r] =
                         [@ EXCEPT !.pc = "unlock", !.ret = cache]]
        /\ UNCHANGED storeVars

\* The reader has its answer and releases the read lock.
ReaderUnlock ==
    \E r \in ReaderIds :
        /\ readers[r].pc = "unlock"
        /\ readers' = [readers EXCEPT ![r] = [@ EXCEPT !.pc = "idle"]]
        /\ UNCHANGED storeVars

NextReaders ==
    \/ ReaderLock
          /\ UNCHANGED <<dagVars, ibdVars, nodeVars, locVars, utilVars, msVars>>
    \/ ReaderTestStaging
          /\ UNCHANGED <<dagVars, ibdVars, nodeVars, locVars, utilVars, msVars>>
    \/ ReaderTestCache
          /\ UNCHANGED <<dagVars, ibdVars, nodeVars, locVars, utilVars, msVars>>
    \/ ReaderGet
          /\ UNCHANGED <<dagVars, ibdVars, nodeVars, locVars, utilVars, msVars>>
    \/ ReaderDeserialize
          /\ UNCHANGED <<dagVars, ibdVars, nodeVars, locVars, utilVars, msVars>>
    \/ ReaderWriteCache
          /\ UNCHANGED <<dagVars, ibdVars, nodeVars, locVars, utilVars, msVars>>
    \/ ReaderReturn
          /\ UNCHANGED <<dagVars, ibdVars, nodeVars, locVars, utilVars, msVars>>
    \/ ReaderUnlock
          /\ UNCHANGED <<dagVars, ibdVars, nodeVars, locVars, utilVars, msVars>>

InitReadersAlone ==
    InitReaders /\ IdleDag /\ IdleIBD /\ IdleNodes /\ IdleLocator /\ IdleUtils
    /\ IdleMultiset

SpecReaders == InitReadersAlone /\ [][NextReaders]_vars

\* The readers whose next statement writes the cache field, and those whose
\* next statement reads it.
CacheWriters == {r \in ReaderIds : readers[r].pc = "write"}

CacheReaders == {r \in ReaderIds : readers[r].pc \in {"cache", "return"}}

\* C36: read operations under the read lock do not write shared store
\* state.  With two readers calling HeadersSelectedTip concurrently on a
\* store whose staging and cache are empty, no interleaving has both of
\* them writing the cache field, nor one writing it while the other reads
\* it: never are two readers both about to write the cache, or one about
\* to write it and another about to read it.
C36_NoRaceOnCache ==
    \A r1, r2 \in ReaderIds :
        r1 # r2 =>
            ~(r1 \in CacheWriters /\ r2 \in CacheWriters \cup CacheReaders)

(***************************************************************************)
(* The MultisetStore.  store.loaded maps block hashes to multisets,        *)
(* store.new is the set of block hashes whose multiset is to be written,   *)
(* and the multiset bucket of the database maps block hashes to the bytes  *)
(* of a serialized multiset.  FlushToDB writes through the transaction of  *)
(* its caller, who commits it or rolls it back.                            *)
(***************************************************************************)

\* The number of blocks that get a multiset.
MaxMultisetBlocks == 2

\* daghash.Hash values of blocks.
MultisetHashes == 1..MaxMultisetBlocks

\* secp256k1.MultiSet values.
Multisets == {1, 2}

\* serializeMultiset: the bytes of a multiset.
serializeMultiset(ms) == <<ms \div 2, ms % 2>>

\* deserializeMultiset: the multiset of two bytes, or an error.
deserializeMultiset(serializedMS) ==
    IF Len(serializedMS) = 2 /\ 2 * serializedMS[1] + serializedMS[2] \in Multisets
    THEN [err |-> FALSE, ms |-> 2 * serializedMS[1] + serializedMS[2]]
    ELSE [err |-> TRUE, ms |-> 0]

\* The maps from some block hashes to values of a set.
PartialMaps(values) == UNION {[S -> values] : S \in SUBSET MultisetHashes}

\* m with the value v under the key h.
MapSet(m, h, v) == [x \in DOMAIN m \cup {h} |-> IF x = h THEN v ELSE m[x]]

\* A storeMultiset that stores without asking whether an entry exists.
storeMultisetMutOverrides(db, blockHash, serializedMS) ==
    [err |-> FALSE, db |-> MapSet(db, blockHash, serializedMS), accesses |-> 1]

\* storeMultiset: HasMultiset, an error when the entry exists, otherwise
\* StoreMultiset.  accesses counts the calls on the database.
storeMultiset(db, blockHash, serializedMS) ==
    IF blockHash \in DOMAIN db
    THEN [err |-> TRUE, db |-> db, accesses |-> 1]
    ELSE [err |-> FALSE, db |-> MapSet(db, blockHash, serializedMS),
          accesses |-> 2]

\* The loop of FlushToDB over store.new in the order the map is ranged
\* over: the first hash without a multiset in store.loaded and the first
\* failing storeMultiset end it with an error.  notFound tells that the
\* first of the two happened.
RECURSIVE flushLoop(_, _, _, _)
flushLoop(hashes, ld, db, accesses) ==
    IF hashes = <<>>
    THEN [err |-> FALSE, notFound |-> FALSE, db |-> db, accesses |-> accesses]
    ELSE LET hash == Head(hashes)
         IN  IF hash \notin DOMAIN ld
             THEN [err |-> TRUE, notFound |-> TRUE, db |-> db,
                   accesses |-> accesses]
             ELSE LET stored == storeMultiset(db, hash,
                                              serializeMultiset(ld[hash]))
                  IN  IF stored.err
                      THEN [err |-> TRUE, notFound |-> FALSE, db |-> db,
                            accesses |-> accesses + stored.accesses]
                      ELSE flushLoop(Tail(hashes), ld, stored.db,
                                     accesses + stored.accesses)

\* The orders in which a range over a map with these keys may visit them.
RangeOrders(keys) ==
    {hashes \in [1..Cardinality(keys) -> keys] :
        \A i, j \in 1..Cardinality(keys) : i # j => hashes[i] # hashes[j]}

NoMultisetCall == [op |-> "none", err |-> FALSE, notFound |-> FALSE,
                   accesses |-> 0, prevOp |-> "none"]

\* What a call other than FlushToDB leaves in msCall: the call itself and
\* what has been set since the last ClearNewEntries.
OtherCall(op, err, setSince) ==
    [last |-> [NoMultisetCall EXCEPT !.op = op, !.err = err,
                                     !.prevOp = msCall.last.op],
     setSince |-> setSince,
     newBefore |-> {}, loadedBefore |-> <<>>, dbBefore |-> <<>>,
     dbWritten |-> <<>>]

\* NewMultisetStore() over a database that holds the multisets of some
\* blocks, written by earlier runs.
InitMultiset ==
    /\ new = {}
    /\ loaded = <<>>
    /\ msDb \in PartialMaps({serializeMultiset(ms) : ms \in Multisets})
    /\ msCall = [last |-> NoMultisetCall, setSince |-> <<>>,
                 newBefore |-> {}, loadedBefore |-> <<>>, dbBefore |-> <<>>,
                 dbWritten |-> <<>>]

\* A SetMultiset that leaves store.new as it is.
SetMultisetMutNotNew ==
    \E hash \in MultisetHashes, ms \in Multisets :
        /\ loaded' = MapSet(loaded, hash, ms)
        /\ UNCHANGED new
        /\ msCall' = OtherCall("SetMultiset", FALSE,
                              MapSet(msCall.setSince, hash, ms))
        /\ UNCHANGED msDb

\* SetMultiset(node, ms): store.loaded[*node.Hash] = *ms; addToNewBlocks.
SetMultiset ==
    \E hash \in MultisetHashes, ms \in Multisets :
        /\ loaded' = MapSet(loaded, hash, ms)
        /\ new' = new \cup {hash}
        /\ msCall' = OtherCall("SetMultiset", FALSE,
                              MapSet(msCall.setSince, hash, ms))
        /\ UNCHANGED msDb

\* FlushToDB(dbContext), and the end of the caller's transaction: nothing
\* when store.new is empty; otherwise the loop.  dbWritten is the bucket as
\* the transaction sees it when FlushToDB returns; the caller then commits
\* the transaction or rolls it back.
FlushToDB ==
    /\ \E hashes \in RangeOrders(new), committed \in BOOLEAN :
         LET flushed == IF new = {}
                        THEN [err |-> FALSE, notFound |-> FALSE, db |-> msDb,
                              accesses |-> 0]
                        ELSE flushLoop(hashes, loaded, msDb, 0)
         IN  /\ msDb' = IF committed THEN flushed.db ELSE msDb
             /\ msCall' = [msCall EXCEPT
                             !.last = [op |-> "FlushToDB", err |-> flushed.err,
                                       notFound |-> flushed.notFound,
                                       accesses |-> flushed.accesses,
                                       prevOp |-> msCall.last.op],
                             !.newBefore = new,
                             !.loadedBefore = loaded,
                             !.dbBefore = msDb,
                             !.dbWritten = flushed.db]
    /\ UNCHANGED <<new, loaded>>

\* ClearNewEntries(): store.new = make(map).
ClearNewEntries ==
    /\ new' = {}
    /\ msCall' = OtherCall("ClearNewEntries", FALSE, <<>>)
    /\ UNCHANGED <<loaded, msDb>>

\* The entries of the bucket from the cursor's first key up to the key cut.
RECURSIVE loadUpTo(_, _, _)
loadUpTo(ld, db, cut) ==
    IF cut = 0 THEN ld
    ELSE LET before == loadUpTo(ld, db, cut - 1)
         IN  IF cut \in DOMAIN db
             THEN MapSet(before, cut, deserializeMultiset(db[cut]).ms)
             ELSE before

\* Init(dbContext): the cursor walks the bucket by ascending key and each
\* entry is put into store.loaded; an error of the cursor ends the walk
\* after the key cut.
InitFromDB ==
    \E cut \in 0..MaxMultisetBlocks :
        /\ loaded' = loadUpTo(loaded, msDb, cut)
        /\ msCall' = OtherCall("Init", cut < MaxMultisetBlocks,
                              msCall.setSince)
        /\ UNCHANGED <<new, msDb>>

NextMultiset ==
    \/ SetMultiset
          /\ UNCHANGED <<storeVars, dagVars, ibdVars, nodeVars, locVars,
                         utilVars, readVars>>
    \/ FlushToDB
          /\ UNCHANGED <<storeVars, dagVars, ibdVars, nodeVars, locVars,
                         utilVars, readVars>>
    \/ ClearNewEntries
          /\ UNCHANGED <<storeVars, dagVars, ibdVars, nodeVars, locVars,
                         utilVars, readVars>>
    \/ InitFromDB
          /\ UNCHANGED <<storeVars, dagVars, ibdVars, nodeVars, locVars,
                         utilVars, readVars>>

InitMultisetAlone ==
    InitMultiset /\ IdleStore /\ IdleDag /\ IdleIBD /\ IdleNodes
    /\ IdleLocator /\ IdleUtils /\ IdleReaders

SpecMultiset == InitMultisetAlone /\ [][NextMultiset]_vars

\* The last call on the store was FlushToDB.
FlushCall == msCall.last.op = "FlushToDB"

\* C37: FlushToDB never overwrites a multiset already stored in the
\* database: if a block hash pending in store.new already has a database
\* entry, FlushToDB returns an error, and every entry the database held
\* keeps its bytes, in the caller's transaction and in the database.
C37_NeverOverwrites ==
    FlushCall =>
        /\ (msCall.newBefore \cap DOMAIN msCall.dbBefore # {}) =>
              msCall.last.err
        /\ \A h \in DOMAIN msCall.dbBefore :
              /\ h \in DOMAIN msCall.dbWritten
              /\ msCall.dbWritten[h] = msCall.dbBefore[h]
              /\ h \in DOMAIN msDb
              /\ msDb[h] = msCall.dbBefore[h]

\* A FlushToDB right after another, without ClearNewEntries, has failed on
\* a pending block whose stored bytes are not those of its multiset in
\* store.loaded.
C37_Witness ==
    /\ FlushCall
    /\ msCall.last.err
    /\ msCall.last.prevOp = "FlushToDB"
    /\ \E h \in msCall.newBefore \cap DOMAIN msCall.dbBefore :
          msCall.dbBefore[h] # serializeMultiset(msCall.loadedBefore[h])

\* C38: for any sequence of SetMultiset, FlushToDB, ClearNewEntries and
\* Init: a successful FlushToDB writes every block whose multiset was set
\* since the last ClearNewEntries, with the value last set for it; it
\* writes no other block, so none that Init alone loaded; every pending
\* hash has an entry in store.loaded, so FlushToDB never fails for a
\* multiset not found; and FlushToDB right after ClearNewEntries performs
\* no database access.
C38_FlushWritesWhatWasSet ==
    /\ new = DOMAIN msCall.setSince
    /\ new \subseteq DOMAIN loaded
    /\ FlushCall =>
          /\ ~msCall.last.notFound
          /\ ~msCall.last.err =>
                \A h \in DOMAIN msCall.setSince :
                   /\ h \notin DOMAIN msCall.dbBefore
                   /\ h \in DOMAIN msCall.dbWritten
                   /\ msCall.dbWritten[h] =
                         serializeMultiset(msCall.setSince[h])
          /\ \A h \in DOMAIN msCall.dbWritten \ DOMAIN msCall.dbBefore :
                h \in DOMAIN msCall.setSince
          /\ msCall.last.prevOp = "ClearNewEntries" =>
                /\ msCall.last.accesses = 0
                /\ ~msCall.last.err
                /\ msCall.dbWritten = msCall.dbBefore

\* A successful FlushToDB has written a block whose multiset was set, on a
\* store that also holds a multiset Init loaded; the committed database
\* holds both.
C38_Witness ==
    /\ FlushCall
    /\ ~msCall.last.err
    /\ msCall.newBefore # {}
    /\ DOMAIN msCall.loadedBefore \ msCall.newBefore # {}
    /\ msCall.last.accesses = 2 * Cardinality(msCall.newBefore)
    /\ DOMAIN msDb = DOMAIN msCall.loadedBefore

====
